---------------------------- MODULE Spec2Model ----------------------------
(***************************************************************************)
(* Model of the privacy-pool client core (cli/src/crypto.rs,               *)
(* cli/src/prover.rs): field codec, Poseidon hashing, the Merkle           *)
(* accumulator, the UTXO note model and the signed-amount decoding.        *)
(*                                                                         *)
(* Field elements.  A field element is a tagged tuple:                     *)
(*   <<0, n>>          the element with canonical value n, 0 <= n < r      *)
(*   <<k, a1, .., ak>> the Poseidon hash of arity k of a1 .. ak            *)
(* Poseidon is an external library; it is modelled as a collision-free     *)
(* function (a free constructor), whose numeric value is not interpreted.  *)
(* The field modulus, the byte widths and the integer widths are scaled    *)
(* down (FIELD_SIZE, ArrBits, AmountBits) so that the cases of truncation, *)
(* reduction and overflow are reached by small numbers.                    *)
(***************************************************************************)
EXTENDS Integers, Sequences, FiniteSets, TLC

VARIABLES tree, path, note, rebuilt, nullifier, text, parsed, printed, signal, decoded,
          proof, wire, chain, store, cmd, relay, handlers, exported

vars == <<tree, path, note, rebuilt, nullifier, text, parsed, printed, signal, decoded,
          proof, wire, chain, store, cmd, relay, handlers, exported>>

treeVars == <<tree, path>>

utxoVars == <<note, rebuilt, nullifier>>

codecVars == <<text, parsed, printed>>

amountVars == <<signal, decoded>>

wireVars == <<proof, wire>>

cliVars == <<chain, store, cmd>>

relayVars == <<relay, handlers>>

fileVars == <<exported>>

flowVars == <<wireVars, cliVars, relayVars, fileVars>>

(***************************************************************************)
(* Bounds of the model.                                                    *)
(***************************************************************************)
\* scaled BN254 scalar field modulus r (crypto.rs FIELD_SIZE)
FIELD_SIZE == 251
\* scaled width in bits of the 32-byte array of str_to_fr (2^ArrBits > r)
ArrBits == 8
\* scaled width in bits of u64 / i64
AmountBits == 4
\* largest tree height explored (the program uses 26, its test 4)
MaxHeight == 2
\* largest number of leaves appended to a tree
MaxLeaves == 4
\* longest list given to insert_many
MaxBatch == 2
\* longest string given to str_to_fr
MaxStrLen == 3
\* largest value drawn by random_fr
MaxRandom == 11

\* 0-based indexing, as in the source
At(s, i) == s[i + 1]

RECURSIVE Pow2(_)
Pow2(n) == IF n = 0 THEN 1 ELSE 2 * Pow2(n - 1)

(***************************************************************************)
(* Field elements and Poseidon (crypto.rs: PoseidonHash, light_poseidon)   *)
(***************************************************************************)
\* Fr::from(n): reduction modulo the field size
Fr(n) == <<0, n % FIELD_SIZE>>

IsInt(f) == f[1] = 0

\* the canonical integer of a field element that is not a hash output
IntOf(f) == f[2]

hash1(a) == <<1, a>>

hash2(a, b) == <<2, a, b>>

Hash3(a, b, c) == <<3, a, b, c>>

Hash4(a, b, c, d) == <<4, a, b, c, d>>

(***************************************************************************)
(* Field codec (crypto.rs: str_to_fr, fr_to_str)                           *)
(*                                                                         *)
(* A string is a record: chars is its sequence of characters; num is <<>>, *)
(* except for the decimal numeral of a hash output h, whose digits are not *)
(* interpreted: that string has no chars and num = h.                      *)
(***************************************************************************)
Text(cs) == [chars |-> cs, num |-> <<>>]

Numeral(h) == [chars |-> <<>>, num |-> h]

DigitChars == <<"0", "1", "2", "3", "4", "5", "6", "7", "8", "9">>

Digits == {DigitChars[i] : i \in 1..10}

DigitVal(c) == CHOOSE d \in 0..9 : DigitChars[d + 1] = c

\* BigUint::to_string: decimal, most significant digit first, "0" for zero
RECURSIVE Decimal(_)
Decimal(n) ==
    IF n < 10 THEN <<DigitChars[n + 1]>>
    ELSE Append(Decimal(n \div 10), DigitChars[(n % 10) + 1])

RECURSIVE DigitsValue(_, _)
DigitsValue(cs, acc) ==
    IF cs = <<>> THEN acc
    ELSE DigitsValue(Tail(cs),
                     IF cs[1] = "_" THEN acc ELSE 10 * acc + DigitVal(cs[1]))

ErrInt == [ok |-> FALSE, value |-> 0]

\* BigUint::from_str (num-bigint, radix 10): one leading '+' is dropped, the
\* rest must be non-empty, must not start with '_', and holds only digits and
\* '_' separators, which are skipped
BigUint_from_str(cs) ==
    LET s == IF Len(cs) > 0 /\ cs[1] = "+" /\ ~(Len(cs) > 1 /\ cs[2] = "+")
             THEN Tail(cs) ELSE cs
    IN  IF s = <<>> THEN ErrInt
        ELSE IF s[1] = "_" THEN ErrInt
        ELSE IF \E i \in 1..Len(s) : s[i] \notin (Digits \cup {"_"}) THEN ErrInt
        ELSE [ok |-> TRUE, value |-> DigitsValue(s, 0)]

ErrFr == [ok |-> FALSE, value |-> <<>>]

\* Fr::from_le_bytes_mod_order of the first 32 little-endian bytes of the value
FromLeBytesModOrder(value) == <<0, (value % Pow2(ArrBits)) % FIELD_SIZE>>

\* mutant of str_to_fr: a parse error is swallowed and read as zero
str_to_fr_SwallowError(s) ==
    IF s.num # <<>> THEN [ok |-> TRUE, value |-> s.num]
    ELSE LET big == BigUint_from_str(s.chars)
         IN  [ok |-> TRUE, value |-> FromLeBytesModOrder(big.value)]

\* str_to_fr: parse, copy at most 32 bytes, reduce modulo the field size
str_to_fr(s) ==
    IF s.num # <<>> THEN [ok |-> TRUE, value |-> s.num]
    ELSE LET big == BigUint_from_str(s.chars)
         IN  IF ~big.ok THEN ErrFr
             ELSE [ok |-> TRUE, value |-> FromLeBytesModOrder(big.value)]

\* fr_to_str: the canonical value in decimal
fr_to_str(f) == IF IsInt(f) THEN Text(Decimal(IntOf(f))) ELSE Numeral(f)

(***************************************************************************)
(* Signed public amount (prover.rs: public_signal_to_i64)                  *)
(***************************************************************************)
\* u64::MAX, i64::MAX and i64::MIN at the scaled width
U64Max == Pow2(AmountBits) - 1

I64Max == Pow2(AmountBits - 1) - 1

I64Min == 0 - Pow2(AmountBits - 1)

\* fr_to_bigint: the canonical value of the field element
fr_to_bigint(f) == IntOf(f)

\* mutant of prove_deposit: publicAmount is the negated amount
DepositPublicAmount_Negated(amount) == FIELD_SIZE - amount

\* prove_deposit: publicAmount = BigInt::from(amount)
DepositPublicAmount(amount) == amount

\* mutant of prove_withdraw: the amount is not negated
WithdrawPublicAmount_NotNegated(amount) == amount

\* prove_withdraw: neg_amount = field_size - amount
WithdrawPublicAmount(amount) == FIELD_SIZE - amount

\* the public signal of a witness input: the input as a field element
PublicSignal(bigint) == Fr(bigint)

\* mutant of public_signal_to_i64: the value is never read as negative
public_signal_to_i64_Unsigned(sig) ==
    LET signed == fr_to_bigint(sig)
    IN  IF signed >= I64Min /\ signed <= I64Max
        THEN [ok |-> TRUE, value |-> signed] ELSE ErrInt

\* mutant of public_signal_to_i64: the range of i64 is not checked
public_signal_to_i64_NoRangeCheck(sig) ==
    LET value == fr_to_bigint(sig)
    IN  [ok |-> TRUE,
         value |-> IF value > FIELD_SIZE \div 2 THEN value - FIELD_SIZE ELSE value]

\* public_signal_to_i64: v - r when v > r >> 1, else v; to_i64 or an error
public_signal_to_i64(sig) ==
    LET field == FIELD_SIZE
        value == fr_to_bigint(sig)
        half_field == field \div 2
        signed == IF value > half_field THEN value - field ELSE value
    IN  IF signed >= I64Min /\ signed <= I64Max
        THEN [ok |-> TRUE, value |-> signed] ELSE ErrInt

(***************************************************************************)
(* UTXO notes (crypto.rs: Utxo)                                            *)
(***************************************************************************)
\* the note of a failed call
NoUtxo ==
    [amount |-> 0, pubkey |-> Text(<<>>), privkey |-> Text(<<>>),
     blinding |-> Text(<<>>), commitment |-> Text(<<>>)]

\* Utxo::new, with the two values random_fr drew
Utxo_new(amount, privkey, blinding) ==
    LET pubkey == hash1(privkey)
        mint == Fr(1)
        amount_fr == Fr(amount)
        commitment == Hash4(amount_fr, pubkey, blinding, mint)
    IN  [amount |-> amount,
         pubkey |-> fr_to_str(pubkey),
         privkey |-> fr_to_str(privkey),
         blinding |-> fr_to_str(blinding),
         commitment |-> fr_to_str(commitment)]

\* mutant of from_values: the commitment hashes the private key
from_values_HashesPrivkey(amount, privkey, pubkey, blinding) ==
    LET privkey_fr == str_to_fr(privkey)
        pubkey_fr == str_to_fr(pubkey)
        blinding_fr == str_to_fr(blinding)
        mint == Fr(1)
        amount_fr == Fr(amount)
        commitment == Hash4(amount_fr, privkey_fr.value, blinding_fr.value, mint)
    IN  IF ~privkey_fr.ok \/ ~pubkey_fr.ok \/ ~blinding_fr.ok
        THEN [ok |-> FALSE, utxo |-> NoUtxo]
        ELSE [ok |-> TRUE,
              utxo |-> [amount |-> amount,
                        pubkey |-> pubkey,
                        privkey |-> privkey,
                        blinding |-> blinding,
                        commitment |-> fr_to_str(commitment)]]

\* Utxo::from_values: the three strings are parsed, the commitment is computed
\* from the given pubkey, the strings are stored as given
from_values(amount, privkey, pubkey, blinding) ==
    LET privkey_fr == str_to_fr(privkey)
        pubkey_fr == str_to_fr(pubkey)
        blinding_fr == str_to_fr(blinding)
        mint == Fr(1)
        amount_fr == Fr(amount)
        commitment == Hash4(amount_fr, pubkey_fr.value, blinding_fr.value, mint)
    IN  IF ~privkey_fr.ok \/ ~pubkey_fr.ok \/ ~blinding_fr.ok
        THEN [ok |-> FALSE, utxo |-> NoUtxo]
        ELSE [ok |-> TRUE,
              utxo |-> [amount |-> amount,
                        pubkey |-> pubkey,
                        privkey |-> privkey,
                        blinding |-> blinding,
                        commitment |-> fr_to_str(commitment)]]

\* mutant of compute_nullifier: the signature is made with the public key
compute_nullifier_SignsWithPubkey(utxo, leaf_index) ==
    LET privkey == str_to_fr(utxo.pubkey)
        commitment == str_to_fr(utxo.commitment)
        index_fr == Fr(leaf_index)
        signature == Hash3(privkey.value, commitment.value, index_fr)
        nullifier_ == Hash3(commitment.value, index_fr, signature)
    IN  IF ~privkey.ok \/ ~commitment.ok THEN ErrFr
        ELSE [ok |-> TRUE, value |-> nullifier_]

\* Utxo::compute_nullifier: signature = Poseidon(privkey, commitment, index),
\* nullifier = Poseidon(commitment, index, signature)
compute_nullifier(utxo, leaf_index) ==
    LET privkey == str_to_fr(utxo.privkey)
        commitment == str_to_fr(utxo.commitment)
        index_fr == Fr(leaf_index)
        signature == Hash3(privkey.value, commitment.value, index_fr)
        nullifier_ == Hash3(commitment.value, index_fr, signature)
    IN  IF ~privkey.ok \/ ~commitment.ok THEN ErrFr
        ELSE [ok |-> TRUE, value |-> nullifier_]

(***************************************************************************)
(* Variables a specification does not use keep these values                *)
(***************************************************************************)
NoNote == [made |-> FALSE, utxo |-> NoUtxo]

NoRebuilt == [called |-> FALSE, args |-> NoUtxo, ok |-> FALSE, utxo |-> NoUtxo]

NoNullifier ==
    [called |-> FALSE, utxo |-> NoUtxo, leaf_index |-> 0, ok |-> FALSE, value |-> <<>>]

IdleUtxo == note = NoNote /\ rebuilt = NoRebuilt /\ nullifier = NoNullifier

NoParsed == [called |-> FALSE, ok |-> FALSE, value |-> <<>>]

NoPrinted == [called |-> FALSE, value |-> Text(<<>>)]

IdleCodec == text = Text(<<>>) /\ parsed = NoParsed /\ printed = NoPrinted

NoSignal == [kind |-> "none", amount |-> 0, value |-> <<0, 0>>]

NoDecoded == [called |-> FALSE, ok |-> FALSE, value |-> 0]

IdleAmount == signal = NoSignal /\ decoded = NoDecoded

NoBytes == [bytes |-> <<>>, num |-> <<>>]

NoProofData ==
    [proof_a |-> NoBytes, proof_b |-> NoBytes, proof_c |-> NoBytes, root |-> NoBytes,
     nullifier1 |-> NoBytes, nullifier2 |-> NoBytes, commitment1 |-> NoBytes,
     commitment2 |-> NoBytes, public_amount |-> 0, ext_data_hash |-> NoBytes]

NoProof == [coords |-> <<>>, public_signals |-> <<>>]

NoWire == [called |-> FALSE, ok |-> FALSE, proof_data |-> NoProofData, data |-> <<>>]

IdleWire == proof = NoProof /\ wire = NoWire

NoInputs ==
    [root |-> <<>>, publicAmount |-> <<>>, extDataHash |-> <<>>, mintAddress |-> <<>>,
     inputNullifier |-> <<>>, inAmount |-> <<>>, inPrivateKey |-> <<>>,
     inBlinding |-> <<>>, inPathIndices |-> <<>>, inPathElements |-> <<>>,
     outputCommitment |-> <<>>, outAmount |-> <<>>, outPubkey |-> <<>>,
     outBlinding |-> <<>>]

\* no command has run
NoCmd ==
    [name |-> "none", keypair |-> <<>>, recipient |-> <<>>, failed |-> "none",
     result |-> "none", built |-> <<>>, sent |-> <<>>, witnesses |-> <<>>]

\* no file of exported notes
NoFile == [exists |-> FALSE, notes |-> <<>>]

IdleCli == chain = <<>> /\ store = <<>> /\ cmd = NoCmd /\ exported = NoFile

\* no response of the relayer
NoResponse == [success |-> FALSE, signature |-> <<>>, error |-> <<>>]

NoRequest ==
    [instruction_data |-> <<>>, nullifier1 |-> <<>>, nullifier2 |-> <<>>,
     recipient |-> <<>>]

\* no request is being handled
NoRelay ==
    [called |-> FALSE, request |-> NoRequest, status |-> "none",
     response |-> NoResponse, built |-> <<>>, submitted |-> <<>>]

\* a request handler of the relayer that holds no request
NoHandler ==
    [pc |-> "idle", request |-> NoRequest, failed |-> "none",
     response |-> NoResponse, submitted |-> <<>>]

IdleRelay == relay = NoRelay /\ handlers = <<>>

IdleFlows == IdleWire /\ IdleCli /\ IdleRelay

(***************************************************************************)
(* Merkle tree (crypto.rs: MerkleTree)                                     *)
(***************************************************************************)
RECURSIVE ZeroHashes(_, _)
ZeroHashes(zs, height) ==
    IF Len(zs) = height + 1 THEN zs
    ELSE ZeroHashes(Append(zs, hash2(zs[Len(zs)], zs[Len(zs)])), height)

\* zeros = [0]; for i in 1..=height: zeros.push(hash2(zeros[i-1], zeros[i-1]))
compute_zero_hashes(height) == ZeroHashes(<<Fr(0)>>, height)

\* MerkleTree::new: leaves and layers start empty
MerkleTree_new(h) ==
    [height |-> h, zeros |-> compute_zero_hashes(h), leaves |-> <<>>, layers |-> <<>>]

\* mutant of NextLayer: the fallback of an empty level pushes zeros[level]
NextLayer_EmptyOffByOne(current, level, zeros) ==
    LET n == (Len(current) + 1) \div 2
        next == [j \in 1..n |->
                    hash2(current[2 * j - 1],
                          IF 2 * j <= Len(current) THEN current[2 * j]
                          ELSE At(zeros, level))]
    IN  IF n = 0 THEN <<At(zeros, level)>> ELSE next

\* mutant of NextLayer: a missing right sibling is padded with the left node
NextLayer_DuplicateLast(current, level, zeros) ==
    LET n == (Len(current) + 1) \div 2
        next == [j \in 1..n |->
                    hash2(current[2 * j - 1],
                          IF 2 * j <= Len(current) THEN current[2 * j]
                          ELSE current[2 * j - 1])]
    IN  IF n = 0 THEN <<At(zeros, level + 1)>> ELSE next

\* one pass of the inner while loop of rebuild, with the is_empty fallback
NextLayer(current, level, zeros) ==
    LET n == (Len(current) + 1) \div 2
        next == [j \in 1..n |->
                    hash2(current[2 * j - 1],
                          IF 2 * j <= Len(current) THEN current[2 * j]
                          ELSE At(zeros, level))]
    IN  IF n = 0 THEN <<At(zeros, level + 1)>> ELSE next

RECURSIVE BuildLayers(_, _, _, _)
BuildLayers(layers, level, height, zeros) ==
    IF level = height THEN layers
    ELSE BuildLayers(Append(layers, NextLayer(At(layers, level), level, zeros)),
                     level + 1, height, zeros)

\* rebuild: layers = [leaves], then one more layer per level
rebuild(t) ==
    [t EXCEPT !.layers = BuildLayers(<<t.leaves>>, 0, t.height, t.zeros)]

insert(t, leaf) == rebuild([t EXCEPT !.leaves = Append(t.leaves, leaf)])

\* mutant of insert_many: the new leaves are put in front of the old ones
insert_many_Prepend(t, ls) == rebuild([t EXCEPT !.leaves = ls \o t.leaves])

insert_many(t, ls) == rebuild([t EXCEPT !.leaves = t.leaves \o ls])

root(t) ==
    IF Len(t.layers) = 0 THEN At(t.zeros, t.height)
    ELSE At(At(t.layers, t.height), 0)

leaf_count(t) == Len(t.leaves)

\* mutant of IndexAt: current_index is never halved
IndexAt_NoShift(leaf_index, level) == leaf_index

\* index of a node at a level, current_index /= 2 per level
IndexAt(leaf_index, level) == leaf_index \div Pow2(level)

\* mutant of SiblingIndex: the parity of the node is ignored
SiblingIndex_NoParity(current_index) == current_index + 1

\* is_right = current_index % 2 == 1; the sibling is the other node of the pair
SiblingIndex(current_index) ==
    IF current_index % 2 = 1 THEN current_index - 1 ELSE current_index + 1

\* mutant of SiblingAt: the live node is never looked up
SiblingAt_AlwaysZero(t, leaf_index, level) == At(t.zeros, level)

\* the sibling pushed at one level: the live node, else the level's zero hash
SiblingAt(t, leaf_index, level) ==
    LET layer == At(t.layers, level)
        sibling_index == SiblingIndex(IndexAt(leaf_index, level))
    IN  IF sibling_index < Len(layer) THEN At(layer, sibling_index)
        ELSE At(t.zeros, level)

\* the outcome of a call that indexes a Vec out of bounds: the thread panics
Panic == [ok |-> FALSE, path_elements |-> <<>>, path_indices |-> <<>>]

\* get_path: self.layers[level] is indexed for every level below height
get_path(t, leaf_index) ==
    IF \E level \in 0..(t.height - 1) : level >= Len(t.layers) THEN Panic
    ELSE [ok |-> TRUE,
          path_elements |-> [k \in 1..t.height |-> SiblingAt(t, leaf_index, k - 1)],
          path_indices |-> [k \in 1..t.height |-> IndexAt(leaf_index, k - 1) % 2]]

(***************************************************************************)
(* Inputs of the tree operations                                           *)
(***************************************************************************)
Heights == 1..MaxHeight

\* leaves: the zero leaf, a plain value, and a value equal to an inner zero hash
LeafValues == {Fr(0), Fr(1), hash2(Fr(0), Fr(0))}

SeqsUpTo(S, n) == UNION {[1..k -> S] : k \in 0..n}

Batches == SeqsUpTo(LeafValues, MaxBatch)

\* leaf indexes asked of get_path: below, at and beyond the capacity
MaxIndex == Pow2(MaxHeight) + 1

\* no get_path call has been made since the tree last changed
NoPath == [leaf_index |-> -1, result |-> Panic]

IdleTree == tree = MerkleTree_new(1) /\ path = NoPath

(***************************************************************************)
(* Specification of the Merkle accumulator                                 *)
(***************************************************************************)
InitTree ==
    /\ \E h \in Heights : tree = MerkleTree_new(h)
    /\ path = NoPath
    /\ IdleUtxo /\ IdleCodec /\ IdleAmount /\ IdleFlows

Insert ==
    /\ leaf_count(tree) < MaxLeaves
    /\ \E leaf \in LeafValues : tree' = insert(tree, leaf)
    /\ path' = NoPath
    /\ UNCHANGED <<utxoVars, codecVars, amountVars, flowVars>>

InsertMany ==
    /\ \E ls \in Batches :
          /\ leaf_count(tree) + Len(ls) <= MaxLeaves
          /\ tree' = insert_many(tree, ls)
    /\ path' = NoPath
    /\ UNCHANGED <<utxoVars, codecVars, amountVars, flowVars>>

GetPath ==
    /\ \E i \in 0..MaxIndex : path' = [leaf_index |-> i, result |-> get_path(tree, i)]
    /\ UNCHANGED <<tree, utxoVars, codecVars, amountVars, flowVars>>

NextTree == Insert \/ InsertMany \/ GetPath

SpecTree == InitTree /\ [][NextTree]_vars

(***************************************************************************)
(* Properties of the Merkle accumulator                                    *)
(***************************************************************************)
\* folding a leaf with its path: sibling on the right when the bit is 0
RECURSIVE FoldPath(_, _, _, _)
FoldPath(cur, elements, bits, k) ==
    IF k > Len(elements) THEN cur
    ELSE FoldPath(IF bits[k] = 0 THEN <<2, cur, elements[k]>>
                  ELSE <<2, elements[k], cur>>,
                  elements, bits, k + 1)

FoldsToRoot(t, i) ==
    LET p == get_path(t, i)
    IN  /\ p.ok
        /\ FoldPath(At(t.leaves, i), p.path_elements, p.path_indices, 1) = root(t)

Capacity(t) == Pow2(t.height)

\* C1 as stated: for every inserted leaf sequence and every index i of an
\* inserted leaf, folding leaf i with get_path(i) yields root().
C1_FoldAnyLength == \A i \in 0..(leaf_count(tree) - 1) : FoldsToRoot(tree, i)

\* C1 amended: for every leaf sequence of at most 2^H leaves and every index i
\* of an inserted leaf, folding leaf i with the H siblings of get_path(i)
\* (sibling right when the bit is 0, left when it is 1) yields root().
C1_FoldWithinCapacity ==
    leaf_count(tree) <= Capacity(tree) =>
        \A i \in 0..(leaf_count(tree) - 1) : FoldsToRoot(tree, i)

\* get_path was called for the last leaf of a tree filled to its capacity, and
\* its path has a live sibling and folds to the root
C1_Witness ==
    /\ leaf_count(tree) = Capacity(tree)
    /\ path.leaf_index = leaf_count(tree) - 1
    /\ path.result.ok
    /\ path.result.path_elements[1] = At(tree.leaves, path.leaf_index - 1)
    /\ FoldPath(At(tree.leaves, path.leaf_index), path.result.path_elements,
                path.result.path_indices, 1) = root(tree)

\* C2: a tree of height H >= 1 has H+1 zero hashes, zero[0] = 0 and
\* zero[i] = Hash2(zero[i-1], zero[i-1]); the root of a tree with no leaf
\* (never inserted into, or only insert_many of an empty list) is zero[H].
C2_ZeroHashesAndEmptyRoot ==
    /\ Len(tree.zeros) = tree.height + 1
    /\ At(tree.zeros, 0) = <<0, 0>>
    /\ \A i \in 1..tree.height :
          At(tree.zeros, i) = <<2, At(tree.zeros, i - 1), At(tree.zeros, i - 1)>>
    /\ leaf_count(tree) = 0 => root(tree) = At(tree.zeros, tree.height)

\* insert_many of an empty list has rebuilt the layers of a tree without leaves
C2_Witness ==
    /\ leaf_count(tree) = 0
    /\ Len(tree.layers) = tree.height + 1
    /\ tree.height >= 2
    /\ root(tree) = At(tree.zeros, tree.height)

\* C3: get_path never fails: in every reachable tree state, a freshly
\* constructed tree included, and for every leafIndex it returns exactly H
\* siblings and H direction bits.
C3_GetPathNeverFails ==
    path.leaf_index >= 0 =>
        /\ path.result.ok
        /\ Len(path.result.path_elements) = tree.height
        /\ Len(path.result.path_indices) = tree.height

Xor1(n) == n + 1 - 2 * (n % 2)

RootOf(h, s) == root(insert_many(MerkleTree_new(h), s))

LeafSeqs == SeqsUpTo(LeafValues, MaxLeaves)

RootTable == [h \in Heights |-> [s \in LeafSeqs |-> RootOf(h, s)]]

\* the first 2^h leaves of s, padded with the zero leaf
Pad(h, s) == [i \in 1..Pow2(h) |-> IF i <= Len(s) THEN s[i] ELSE <<0, 0>>]

\* C5 as stated: every insert (of any leaf value, at any leaf count) changes
\* root(), as two different leaf sequences never have the same root.
C5_EveryInsertChangesRoot ==
    [][tree'.leaves # tree.leaves => root(tree') # root(tree)]_vars

\* C5 amended: with Hash2 collision-free, two leaf sequences inserted into
\* trees of the same height H have the same root() exactly when their first
\* 2^H leaves, padded with the zero leaf, are the same: sequences of non-zero
\* leaves within the capacity 2^H that differ have different roots, while a
\* zero leaf or a leaf beyond the capacity does not change root().
C5_RootDeterminesPaddedLeaves ==
    \A s \in LeafSeqs :
        (RootTable[tree.height][s] = root(tree))
            <=> (Pad(tree.height, s) = Pad(tree.height, tree.leaves))

\* a non-zero leaf followed by a zero leaf has been inserted: the root is the
\* one of the non-zero leaf alone and differs from the one of the swapped leaves
C5_Witness ==
    /\ tree.leaves = <<<<0, 1>>, <<0, 0>>>>
    /\ Len(tree.layers) = tree.height + 1
    /\ root(tree) = RootTable[tree.height][<<<<0, 1>>>>]
    /\ root(tree) # RootTable[tree.height][<<<<0, 0>>, <<0, 1>>>>]
    /\ root(tree) # At(tree.zeros, tree.height)

(***************************************************************************)
(* Specification of the field codec: str_to_fr of a string, then fr_to_str *)
(* of the field element it returned                                        *)
(***************************************************************************)
\* the characters of the input strings: the digits, a sign, a separator, a
\* letter and a minus
Alphabet == Digits \cup {"+", "_", "x", "-"}

Texts == {Text(cs) : cs \in SeqsUpTo(Alphabet, MaxStrLen)}

InitCodec ==
    /\ text \in Texts
    /\ parsed = NoParsed
    /\ printed = NoPrinted
    /\ IdleTree /\ IdleUtxo /\ IdleAmount /\ IdleFlows

StrToFr ==
    /\ ~parsed.called
    /\ parsed' = LET r == str_to_fr(text)
                 IN  [called |-> TRUE, ok |-> r.ok, value |-> r.value]
    /\ UNCHANGED <<text, printed, treeVars, utxoVars, amountVars, flowVars>>

FrToStr ==
    /\ parsed.called /\ parsed.ok
    /\ ~printed.called
    /\ printed' = [called |-> TRUE, value |-> fr_to_str(parsed.value)]
    /\ UNCHANGED <<text, parsed, treeVars, utxoVars, amountVars, flowVars>>

NextCodec == StrToFr \/ FrToStr

SpecCodec == InitCodec /\ [][NextCodec]_vars

(***************************************************************************)
(* Properties of the field codec                                           *)
(***************************************************************************)
\* the decimal strings of the values of [0, r)
IsCanonical(cs) == \E v \in 0..(FIELD_SIZE - 1) : cs = Decimal(v)

RoundTrip ==
    /\ (parsed.called /\ IsCanonical(text.chars)) =>
          /\ parsed.ok
          /\ \E v \in 0..(FIELD_SIZE - 1) :
                text.chars = Decimal(v) /\ parsed.value = <<0, v>>
    /\ (printed.called /\ IsCanonical(text.chars)) => printed.value = text

\* a numeric string: one decimal digit or more, and nothing else
IsNumeric(cs) == cs # <<>> /\ \A i \in 1..Len(cs) : cs[i] \in Digits

\* C9 as stated: the round trip decimal string -> field element -> decimal
\* string is the identity on [0, r), and str_to_fr fails on every non-numeric
\* string.
C9_RoundTripRejectsNonNumeric ==
    /\ RoundTrip
    /\ (parsed.called /\ ~IsNumeric(text.chars)) => ~parsed.ok

\* the strings BigUint::from_str reads: an optional '+', a digit, then digits
\* and '_' separators
IsAccepted(cs) ==
    LET body == IF cs # <<>> /\ cs[1] = "+" THEN Tail(cs) ELSE cs
    IN  /\ body # <<>>
        /\ body[1] \in Digits
        /\ \A i \in 1..Len(body) : body[i] \in Digits \cup {"_"}

\* C9 amended: the round trip is the identity on [0, r); str_to_fr fails
\* exactly on the strings that are not an optional leading '+', a decimal
\* digit, then decimal digits and '_' separators: it fails on every string
\* holding another character, and reads "+5" as 5 and "1_0" as 10.
C9_RoundTripRejectsMalformed ==
    /\ RoundTrip
    /\ parsed.called => (parsed.ok <=> IsAccepted(text.chars))
    /\ (parsed.called /\ \E i \in 1..Len(text.chars) :
                            text.chars[i] \notin Digits \cup {"+", "_"})
          => ~parsed.ok

\* the decimal string of r - 1 has been parsed and printed back
C9_Witness ==
    /\ text.chars = Decimal(FIELD_SIZE - 1)
    /\ parsed.ok
    /\ parsed.value = <<0, FIELD_SIZE - 1>>
    /\ printed.called
    /\ printed.value = text

(***************************************************************************)
(* Specification of the signed-amount decoding: a public signal, made by a *)
(* deposit, by a withdrawal or any field value, is decoded                 *)
(***************************************************************************)
Amounts == 0..U64Max

Signals ==
    {[kind |-> "deposit", amount |-> a,
      value |-> PublicSignal(DepositPublicAmount(a))] : a \in Amounts}
    \cup {[kind |-> "withdraw", amount |-> a,
           value |-> PublicSignal(WithdrawPublicAmount(a))] : a \in Amounts}
    \cup {[kind |-> "raw", amount |-> 0, value |-> <<0, v>>] : v \in 0..(FIELD_SIZE - 1)}

InitAmount ==
    /\ signal \in Signals
    /\ decoded = NoDecoded
    /\ IdleTree /\ IdleUtxo /\ IdleCodec /\ IdleFlows

Decode ==
    /\ ~decoded.called
    /\ decoded' = LET r == public_signal_to_i64(signal.value)
                  IN  [called |-> TRUE, ok |-> r.ok, value |-> r.value]
    /\ UNCHANGED <<signal, treeVars, utxoVars, codecVars, flowVars>>

NextAmount == Decode

SpecAmount == InitAmount /\ [][NextAmount]_vars

(***************************************************************************)
(* Properties of the signed-amount decoding                                *)
(***************************************************************************)
\* C10 as stated: for every amount a note can hold (unsigned 64-bit) the
\* signal of a deposit decodes to +amount and the one of a withdrawal to
\* -amount.
C10_DecodeEveryAmount ==
    decoded.called =>
        /\ signal.kind = "deposit" => decoded.ok /\ decoded.value = signal.amount
        /\ signal.kind = "withdraw" => decoded.ok /\ decoded.value = 0 - signal.amount

\* C10 amended: for every amount up to i64::MAX the signal amount decodes to
\* +amount, and for every amount up to 2^63 the signal r - amount decodes to
\* -amount; for the larger unsigned 64-bit amounts the decoding returns the
\* out-of-range error. A raw value v is read as v - r if v > r/2, else as v.
C10_DecodeSignedRange ==
    decoded.called =>
        /\ signal.kind = "deposit" =>
              IF signal.amount <= I64Max
              THEN decoded.ok /\ decoded.value = signal.amount
              ELSE ~decoded.ok
        /\ signal.kind = "withdraw" =>
              IF signal.amount <= I64Max + 1
              THEN decoded.ok /\ decoded.value = 0 - signal.amount
              ELSE ~decoded.ok
        /\ (signal.kind = "raw" /\ decoded.ok) =>
              decoded.value = IF 2 * signal.value[2] > FIELD_SIZE
                              THEN signal.value[2] - FIELD_SIZE
                              ELSE signal.value[2]

\* the signal of a withdrawal of a non-zero amount has been decoded
C10_Witness ==
    /\ signal.kind = "withdraw"
    /\ signal.amount = I64Max
    /\ signal.value = <<0, FIELD_SIZE - I64Max>>
    /\ decoded.called /\ decoded.ok
    /\ decoded.value = 0 - I64Max

(***************************************************************************)
(* Specification of the notes: a note is created by Utxo::new or rebuilt   *)
(* by Utxo::from_values, from the fields of the created note or from       *)
(* persisted values, and its nullifier is computed                         *)
(***************************************************************************)
\* random_fr: 31 random bytes, a value below the field size
RandomFr == {Fr(n) : n \in 0..MaxRandom}

NoteAmounts == {0, 1, I64Max + 1, U64Max}

\* strings a caller of from_values may hold: canonical, with a leading zero,
\* malformed, and the numeral of the public key of private key 1
PersistedTexts ==
    {Text(<<"1">>), Text(<<"0", "7">>), Text(<<"x">>), fr_to_str(hash1(Fr(1)))}

PersistedValues ==
    [amount : {0, 1}, privkey : PersistedTexts, pubkey : PersistedTexts,
     blinding : PersistedTexts, commitment : {Text(<<>>)}]

LeafIndexes == 0..MaxIndex

InitUtxo ==
    /\ IdleUtxo
    /\ IdleTree /\ IdleCodec /\ IdleAmount /\ IdleFlows

New ==
    /\ ~note.made /\ ~rebuilt.called /\ ~nullifier.called
    /\ \E amount \in NoteAmounts, privkey \in RandomFr, blinding \in RandomFr :
          note' = [made |-> TRUE, utxo |-> Utxo_new(amount, privkey, blinding)]
    /\ UNCHANGED <<rebuilt, nullifier, treeVars, codecVars, amountVars, flowVars>>

FromValues ==
    /\ ~rebuilt.called /\ ~nullifier.called
    /\ \E a \in IF note.made THEN {note.utxo} ELSE PersistedValues :
          rebuilt' = LET r == from_values(a.amount, a.privkey, a.pubkey, a.blinding)
                     IN  [called |-> TRUE, args |-> a, ok |-> r.ok, utxo |-> r.utxo]
    /\ UNCHANGED <<note, nullifier, treeVars, codecVars, amountVars, flowVars>>

ComputeNullifier ==
    /\ ~nullifier.called
    /\ note.made \/ rebuilt.ok
    /\ \E i \in LeafIndexes :
          LET u == IF rebuilt.ok THEN rebuilt.utxo ELSE note.utxo
              r == compute_nullifier(u, i)
          IN  nullifier' = [called |-> TRUE, utxo |-> u, leaf_index |-> i,
                            ok |-> r.ok, value |-> r.value]
    /\ UNCHANGED <<note, rebuilt, treeVars, codecVars, amountVars, flowVars>>

NextUtxo == New \/ FromValues \/ ComputeNullifier

SpecUtxo == InitUtxo /\ [][NextUtxo]_vars

(***************************************************************************)
(* Properties of the notes                                                 *)
(***************************************************************************)
\* pubkey = Hash1(privkey) and commitment = Hash4(amount, pubkey, blinding, 1)
NoteInvariant(u) ==
    LET k == str_to_fr(u.privkey)
        p == str_to_fr(u.pubkey)
        b == str_to_fr(u.blinding)
        c == str_to_fr(u.commitment)
    IN  /\ k.ok /\ p.ok /\ b.ok /\ c.ok
        /\ p.value = <<1, k.value>>
        /\ c.value = <<4, <<0, u.amount % FIELD_SIZE>>, p.value, b.value, <<0, 1>>>>

\* C6: every note produced by Utxo::new or by Utxo::from_values satisfies
\* pubkey = Hash1(privkey) and commitment = Hash4(amount, pubkey, blinding, 1).
C6_NoteInvariant ==
    /\ note.made => NoteInvariant(note.utxo)
    /\ (rebuilt.called /\ rebuilt.ok) => NoteInvariant(rebuilt.utxo)

\* C7: from_values on the fields of a note created by Utxo::new returns the
\* same commitment and the privkey, pubkey and blinding strings unchanged, and
\* the commitment it computes does not depend on the private key given.
C7_RebuildSameCommitment ==
    /\ (note.made /\ rebuilt.called) =>
          /\ rebuilt.ok
          /\ rebuilt.utxo.commitment = note.utxo.commitment
          /\ rebuilt.utxo.privkey = note.utxo.privkey
          /\ rebuilt.utxo.pubkey = note.utxo.pubkey
          /\ rebuilt.utxo.blinding = note.utxo.blinding
          /\ rebuilt.utxo.amount = note.utxo.amount
    /\ note.made =>
          \A k \in RandomFr :
              LET r == from_values(note.utxo.amount, fr_to_str(k),
                                   note.utxo.pubkey, note.utxo.blinding)
              IN  r.ok /\ r.utxo.commitment = note.utxo.commitment

\* a note of a non-zero amount, with a two-digit blinding, has been rebuilt
C7_Witness ==
    /\ note.made
    /\ note.utxo.amount = U64Max
    /\ note.utxo.blinding = Text(<<"1", "0">>)
    /\ note.utxo.privkey = Text(<<"3">>)
    /\ rebuilt.called /\ rebuilt.ok
    /\ rebuilt.utxo.commitment = note.utxo.commitment
    /\ rebuilt.utxo.commitment =
          Numeral(<<4, <<0, U64Max>>, <<1, <<0, 3>>>>, <<0, 10>>, <<0, 1>>>>)

\* C8: compute_nullifier(leafIndex) = Hash3(commitment, leafIndex,
\* Hash3(privkey, commitment, leafIndex)); it is the same whatever the amount,
\* pubkey and blinding of the note, and two different leaf indexes of the same
\* note give different nullifiers.
C8_Nullifier ==
    LET u == IF rebuilt.ok THEN rebuilt.utxo ELSE note.utxo
        k == str_to_fr(u.privkey).value
        c == str_to_fr(u.commitment).value
    IN  (note.made \/ rebuilt.ok) =>
          /\ \A i \in LeafIndexes :
                compute_nullifier(u, i) =
                   [ok |-> TRUE,
                    value |-> <<3, c, <<0, i>>, <<3, k, c, <<0, i>>>>>>]
          /\ \A i \in LeafIndexes, a \in NoteAmounts, t \in PersistedTexts :
                compute_nullifier([u EXCEPT !.amount = a, !.pubkey = t,
                                            !.blinding = t], i)
                   = compute_nullifier(u, i)
          /\ \A i, j \in LeafIndexes :
                i # j => compute_nullifier(u, i).value # compute_nullifier(u, j).value
          /\ nullifier.called =>
                /\ nullifier.ok
                /\ nullifier.value = compute_nullifier(nullifier.utxo, nullifier.leaf_index).value

\* the nullifier of a created note has been computed at a non-zero leaf index
C8_Witness ==
    /\ note.made
    /\ nullifier.called /\ nullifier.ok
    /\ nullifier.leaf_index = 3
    /\ nullifier.utxo = note.utxo
    /\ nullifier.value =
          LET c == str_to_fr(note.utxo.commitment).value
              k == str_to_fr(note.utxo.privkey).value
          IN  <<3, c, <<0, 3>>, <<3, k, c, <<0, 3>>>>>>

(***************************************************************************)
(* Byte strings (crypto.rs: fr_to_be_bytes; prover.rs: biguint_to_be_32)   *)
(*                                                                         *)
(* A byte string is a record: bytes is its sequence of bytes; num is <<>>, *)
(* except for the 32-byte encoding of a hash output h, whose bytes are not *)
(* interpreted: that string has no bytes and num = h.                      *)
(***************************************************************************)
\* width in bytes of an encoded field element or coordinate
FrBytes == 32

\* width in bytes of the i64 public amount
I64Bytes == 8

\* scaled BN254 base field modulus (prover.rs BN254_FIELD_MODULUS)
BN254_FIELD_MODULUS == 257

Bytes(bs) == [bytes |-> bs, num |-> <<>>]

ByteLen(b) == IF b.num = <<>> THEN Len(b.bytes) ELSE FrBytes

\* BigUint::to_bytes_be: big-endian, no leading zero byte, one byte for zero
RECURSIVE to_bytes_be(_)
to_bytes_be(n) ==
    IF n < 256 THEN <<n>> ELSE Append(to_bytes_be(n \div 256), n % 256)

\* mutant of biguint_to_be_32: the bytes are not padded
biguint_to_be_32_NoPadding(n) == to_bytes_be(n)

\* biguint_to_be_32: the first 32 bytes at most, right-aligned in 32 zero bytes
biguint_to_be_32(n) ==
    LET bytes == to_bytes_be(n)
        len == IF Len(bytes) < FrBytes THEN Len(bytes) ELSE FrBytes
        start == FrBytes - len
    IN  [i \in 1..FrBytes |-> IF i <= start THEN 0 ELSE bytes[i - start]]

\* fr_to_be_bytes: the canonical value on exactly 32 big-endian bytes
fr_to_be_bytes(f) ==
    IF IsInt(f) THEN Bytes(biguint_to_be_32(IntOf(f)))
    ELSE [bytes |-> <<>>, num |-> f]

\* i64::to_le_bytes: two's complement, least significant byte first
RECURSIVE to_le_bytes(_, _)
to_le_bytes(v, n) ==
    IF n = 0 THEN <<>> ELSE <<v % 256>> \o to_le_bytes(v \div 256, n - 1)

TRANSACT_DISCRIMINATOR == <<217, 149, 130, 143, 221, 52, 252, 119>>

(***************************************************************************)
(* Proof formatting (prover.rs: format_proof, to_instruction_data)         *)
(***************************************************************************)
ProofErr == [status |-> "err", proof_data |-> NoProofData]

ProofPanic == [status |-> "panic", proof_data |-> NoProofData]

\* mutant of format_proof: the y coordinate of proof_a is not negated
format_proof_NoNegation(pi, public_signals) ==
    IF Len(public_signals) < 2 THEN ProofPanic
    ELSE
    LET public_amount == public_signal_to_i64(At(public_signals, 1))
        proof_a == Bytes(biguint_to_be_32(pi.a_x) \o biguint_to_be_32(pi.a_y))
        proof_b == Bytes(biguint_to_be_32(pi.b_x1) \o biguint_to_be_32(pi.b_x0)
                         \o biguint_to_be_32(pi.b_y1) \o biguint_to_be_32(pi.b_y0))
        proof_c == Bytes(biguint_to_be_32(pi.c_x) \o biguint_to_be_32(pi.c_y))
    IN  IF ~public_amount.ok THEN ProofErr
        ELSE IF Len(public_signals) < 7 THEN ProofPanic
        ELSE [status |-> "ok",
              proof_data |->
                 [proof_a |-> proof_a,
                  proof_b |-> proof_b,
                  proof_c |-> proof_c,
                  root |-> fr_to_be_bytes(At(public_signals, 0)),
                  nullifier1 |-> fr_to_be_bytes(At(public_signals, 3)),
                  nullifier2 |-> fr_to_be_bytes(At(public_signals, 4)),
                  commitment1 |-> fr_to_be_bytes(At(public_signals, 5)),
                  commitment2 |-> fr_to_be_bytes(At(public_signals, 6)),
                  public_amount |-> public_amount.value,
                  ext_data_hash |-> fr_to_be_bytes(At(public_signals, 2))]]

\* format_proof: the public amount is decoded first; proof_a is negated
format_proof(pi, public_signals) ==
    IF Len(public_signals) < 2 THEN ProofPanic
    ELSE
    LET modulus == BN254_FIELD_MODULUS
        public_amount == public_signal_to_i64(At(public_signals, 1))
        neg_y == (modulus - pi.a_y) % modulus
        proof_a == Bytes(biguint_to_be_32(pi.a_x) \o biguint_to_be_32(neg_y))
        proof_b == Bytes(biguint_to_be_32(pi.b_x1) \o biguint_to_be_32(pi.b_x0)
                         \o biguint_to_be_32(pi.b_y1) \o biguint_to_be_32(pi.b_y0))
        proof_c == Bytes(biguint_to_be_32(pi.c_x) \o biguint_to_be_32(pi.c_y))
    IN  IF ~public_amount.ok THEN ProofErr
        ELSE IF Len(public_signals) < 7 THEN ProofPanic
        ELSE [status |-> "ok",
              proof_data |->
                 [proof_a |-> proof_a,
                  proof_b |-> proof_b,
                  proof_c |-> proof_c,
                  root |-> fr_to_be_bytes(At(public_signals, 0)),
                  nullifier1 |-> fr_to_be_bytes(At(public_signals, 3)),
                  nullifier2 |-> fr_to_be_bytes(At(public_signals, 4)),
                  commitment1 |-> fr_to_be_bytes(At(public_signals, 5)),
                  commitment2 |-> fr_to_be_bytes(At(public_signals, 6)),
                  public_amount |-> public_amount.value,
                  ext_data_hash |-> fr_to_be_bytes(At(public_signals, 2))]]

\* to_instruction_data: the byte strings appended to the payload, in order
to_instruction_data(d) ==
    <<Bytes(TRANSACT_DISCRIMINATOR),
      d.proof_a, d.proof_b, d.proof_c,
      d.root, d.nullifier1, d.nullifier2, d.commitment1, d.commitment2,
      Bytes(to_le_bytes(d.public_amount, I64Bytes)),
      d.ext_data_hash>>

\* length of a payload
RECURSIVE DataLen(_)
DataLen(data) == IF data = <<>> THEN 0 ELSE ByteLen(Head(data)) + DataLen(Tail(data))

\* the bytes of a payload none of whose parts is a hash output
RECURSIVE DataBytes(_)
DataBytes(data) == IF data = <<>> THEN <<>> ELSE Head(data).bytes \o DataBytes(Tail(data))

(***************************************************************************)
(* Witness inputs (prover.rs: prove_deposit, prove_withdraw)               *)
(*                                                                         *)
(* A BigInt of the input mapping is <<0, n>>, n any integer (not reduced), *)
(* or the hash output it was converted from.  An address is a sequence of  *)
(* AddrLen bytes; the byte values and the two lengths are scaled down so   *)
(* that, as in the source, the integer of the address prefix is below r.   *)
(***************************************************************************)
\* scaled length in bytes of an address (32)
AddrLen == 3
\* scaled length in bytes of the address prefix hashed into extDataHash (8)
PrefixLen == 2
\* scaled number of values of an address byte (256)
ByteBase == 4

\* height of the tree of the pool (crypto.rs MERKLE_TREE_HEIGHT), scaled
MERKLE_TREE_HEIGHT == MaxHeight

BigInt_from(n) == <<0, n>>

\* fr_to_bigint, as an entry of the input mapping
BigInt_of(f) == IF IsInt(f) THEN BigInt_from(fr_to_bigint(f)) ELSE f

\* BigInt::from_bytes_be(Sign::Plus, bytes)
RECURSIVE from_bytes_be(_, _)
from_bytes_be(bs, acc) ==
    IF bs = <<>> THEN acc ELSE from_bytes_be(Tail(bs), acc * ByteBase + Head(bs))

\* &pubkey_bytes[0..8]
AddressPrefix(address) == SubSeq(address, 1, PrefixLen)

\* bigint_to_fr: at most 32 little-endian bytes, reduced modulo the field size
bigint_to_fr(n) == FromLeBytesModOrder(n)

\* str_to_bigint: BigInt::parse_bytes(s, 10), a sign then the digits
str_to_bigint(s) ==
    IF s.num # <<>> THEN [ok |-> TRUE, value |-> s.num]
    ELSE LET neg == s.chars # <<>> /\ s.chars[1] = "-"
                    /\ ~(Len(s.chars) > 1 /\ s.chars[2] = "+")
             big == BigUint_from_str(IF neg THEN Tail(s.chars) ELSE s.chars)
         IN  IF ~big.ok THEN ErrFr
             ELSE [ok |-> TRUE,
                   value |-> BigInt_from(IF neg THEN 0 - big.value ELSE big.value)]

\* mutant of compute_ext_data_hash: the amount is not hashed
compute_ext_data_hash_NoAmount(recipient_num, amount) ==
    BigInt_of(hash2(bigint_to_fr(recipient_num), Fr(0)))

\* compute_ext_data_hash: Poseidon(recipient_fr, amount_fr)
compute_ext_data_hash(recipient_num, amount) ==
    LET recipient_fr == bigint_to_fr(recipient_num)
        amount_fr == Fr(amount)
    IN  BigInt_of(hash2(recipient_fr, amount_fr))

InputsErr == [status |-> "err", inputs |-> NoInputs]

InputsPanic == [status |-> "panic", inputs |-> NoInputs]

ZeroPath == [k \in 1..MERKLE_TREE_HEIGHT |-> BigInt_from(0)]

\* prove_deposit up to the call of generate_proof; rnd holds the six values
\* random_fr draws for the three Utxo::new(0)
DepositInputs(amount, utxo, payer_pubkey_bytes, root_, rnd) ==
    LET dummy_utxo1 == Utxo_new(0, rnd.k1, rnd.b1)
        dummy_utxo2 == Utxo_new(0, rnd.k2, rnd.b2)
        nullifier1 == compute_nullifier(dummy_utxo1, 0)
        nullifier2 == compute_nullifier(dummy_utxo2, 0)
        out_utxo1 == from_values(amount, utxo.privkey, utxo.pubkey, utxo.blinding)
        out_utxo2 == Utxo_new(0, rnd.k3, rnd.b3)
        payer_num == from_bytes_be(AddressPrefix(payer_pubkey_bytes), 0)
        ext_data_hash == compute_ext_data_hash(payer_num, amount)
        zero_path == ZeroPath
        k1 == str_to_bigint(dummy_utxo1.privkey)
        k2 == str_to_bigint(dummy_utxo2.privkey)
        b1 == str_to_bigint(dummy_utxo1.blinding)
        b2 == str_to_bigint(dummy_utxo2.blinding)
        c1 == str_to_bigint(out_utxo1.utxo.commitment)
        c2 == str_to_bigint(out_utxo2.commitment)
        p1 == str_to_bigint(utxo.pubkey)
        p2 == str_to_bigint(out_utxo2.pubkey)
        ob1 == str_to_bigint(utxo.blinding)
        ob2 == str_to_bigint(out_utxo2.blinding)
    IN  IF ~nullifier1.ok \/ ~nullifier2.ok \/ ~out_utxo1.ok THEN InputsErr
        ELSE IF ~k1.ok \/ ~k2.ok \/ ~b1.ok \/ ~b2.ok \/ ~c1.ok \/ ~c2.ok
                \/ ~p1.ok \/ ~p2.ok \/ ~ob1.ok \/ ~ob2.ok
        THEN InputsErr
        ELSE [status |-> "ok",
              inputs |->
                 [root |-> <<BigInt_of(root_)>>,
                  publicAmount |-> <<BigInt_from(DepositPublicAmount(amount))>>,
                  extDataHash |-> <<ext_data_hash>>,
                  mintAddress |-> <<BigInt_from(1)>>,
                  inputNullifier |-> <<BigInt_of(nullifier1.value),
                                       BigInt_of(nullifier2.value)>>,
                  inAmount |-> <<BigInt_from(0), BigInt_from(0)>>,
                  inPrivateKey |-> <<k1.value, k2.value>>,
                  inBlinding |-> <<b1.value, b2.value>>,
                  inPathIndices |-> <<BigInt_from(0), BigInt_from(0)>>,
                  inPathElements |-> zero_path \o zero_path,
                  outputCommitment |-> <<c1.value, c2.value>>,
                  outAmount |-> <<BigInt_from(amount), BigInt_from(0)>>,
                  outPubkey |-> <<p1.value, p2.value>>,
                  outBlinding |-> <<ob1.value, ob2.value>>]]

\* mutant of prove_withdraw: the leaf index is given to the dummy input
WithdrawPathIndices_Swapped(leaf_index) == <<BigInt_from(0), BigInt_from(leaf_index)>>

\* inPathIndices: the leaf index itself for input 1, 0 for the dummy input
WithdrawPathIndices(leaf_index) == <<BigInt_from(leaf_index), BigInt_from(0)>>

\* prove_withdraw up to the call of generate_proof; rnd holds the three
\* values random_fr draws
WithdrawInputs(utxo, leaf_index, t, recipient_pubkey_bytes, rnd) ==
    LET amount == utxo.amount
        root_ == root(t)
        p == get_path(t, leaf_index)
        privkey == str_to_fr(utxo.privkey)
        pubkey == str_to_fr(utxo.pubkey)
        mint == Fr(1)
        nullifier1 == compute_nullifier(utxo, leaf_index)
        dummy_blinding == rnd.dummy_blinding
        dummy_commitment == Hash4(Fr(0), pubkey.value, dummy_blinding, mint)
        dummy_sig == Hash3(privkey.value, dummy_commitment, Fr(0))
        nullifier2 == Hash3(dummy_commitment, Fr(0), dummy_sig)
        out_blinding1 == rnd.out_blinding1
        out_blinding2 == rnd.out_blinding2
        out_commitment1 == Hash4(Fr(0), pubkey.value, out_blinding1, mint)
        out_commitment2 == Hash4(Fr(0), pubkey.value, out_blinding2, mint)
        public_amount_bigint == BigInt_from(WithdrawPublicAmount(amount))
        recipient_num == from_bytes_be(AddressPrefix(recipient_pubkey_bytes), 0)
        ext_data_hash == compute_ext_data_hash(recipient_num, amount)
        path_bigint == [k \in 1..Len(p.path_elements) |-> BigInt_of(p.path_elements[k])]
        zero_path == ZeroPath
        k == str_to_bigint(utxo.privkey)
        b == str_to_bigint(utxo.blinding)
        pk == str_to_bigint(utxo.pubkey)
    IN  IF ~p.ok THEN InputsPanic
        ELSE IF ~privkey.ok \/ ~pubkey.ok \/ ~nullifier1.ok THEN InputsErr
        ELSE IF ~k.ok \/ ~b.ok \/ ~pk.ok THEN InputsErr
        ELSE [status |-> "ok",
              inputs |->
                 [root |-> <<BigInt_of(root_)>>,
                  publicAmount |-> <<public_amount_bigint>>,
                  extDataHash |-> <<ext_data_hash>>,
                  mintAddress |-> <<BigInt_from(1)>>,
                  inputNullifier |-> <<BigInt_of(nullifier1.value),
                                       BigInt_of(nullifier2)>>,
                  inAmount |-> <<BigInt_from(amount), BigInt_from(0)>>,
                  inPrivateKey |-> <<k.value, k.value>>,
                  inBlinding |-> <<b.value, BigInt_of(dummy_blinding)>>,
                  inPathIndices |-> WithdrawPathIndices(leaf_index),
                  inPathElements |-> path_bigint \o zero_path,
                  outputCommitment |-> <<BigInt_of(out_commitment1),
                                         BigInt_of(out_commitment2)>>,
                  outAmount |-> <<BigInt_from(0), BigInt_from(0)>>,
                  outPubkey |-> <<pk.value, pk.value>>,
                  outBlinding |-> <<BigInt_of(out_blinding1),
                                    BigInt_of(out_blinding2)>>]]

\* the field element of an entry of the input mapping
SignalOf(b) == IF IsInt(b) THEN PublicSignal(IntOf(b)) ELSE b

\* generate_proof: the witness evaluator and the prover are collaborators that
\* may fail; the public signals are the public inputs of the circuit, in the
\* order format_proof reads them
generate_proof(inputs, witness_ok, proving_ok) ==
    IF ~witness_ok \/ ~proving_ok THEN [ok |-> FALSE, public_signals |-> <<>>]
    ELSE [ok |-> TRUE,
          public_signals |->
             <<SignalOf(inputs.root[1]),
               SignalOf(inputs.publicAmount[1]),
               SignalOf(inputs.extDataHash[1]),
               SignalOf(inputs.inputNullifier[1]),
               SignalOf(inputs.inputNullifier[2]),
               SignalOf(inputs.outputCommitment[1]),
               SignalOf(inputs.outputCommitment[2])>>]

(***************************************************************************)
(* Accounts, transactions and the chain (main.rs: cmd_deposit,             *)
(* cmd_withdraw, fetch_commitments_from_chain; pool.rs: PoolConfig)        *)
(*                                                                         *)
(* The chain is the sequence of the confirmed transactions of the pool; a  *)
(* transaction signature is its position in that sequence.                 *)
(***************************************************************************)
\* the account of a wallet address
Wallet(address) == [kind |-> "wallet", address |-> address, seed |-> NoBytes]

\* the fixed accounts of PoolConfig and the system program
Config(name) == [kind |-> name, address |-> <<>>, seed |-> NoBytes]

\* Pubkey::find_program_address(&[b"nullifier", seed], program_id)
find_program_address(seed) == [kind |-> "nullifier", address |-> <<>>, seed |-> seed]

AccountMeta(pubkey, is_signer) == [pubkey |-> pubkey, is_signer |-> is_signer]

\* the characters of an address string, one per byte value, and the address
\* they stand for: Pubkey::from_str fails on another character or length
Base58Chars == [i \in 1..ByteBase |-> DigitChars[i + 1]]

Base58Val(c) == CHOOSE i \in 0..(ByteBase - 1) : Base58Chars[i + 1] = c

Pubkey_from_str(s) ==
    IF Len(s) # AddrLen THEN [ok |-> FALSE, value |-> <<>>]
    ELSE IF \E i \in 1..Len(s) : \A j \in 1..ByteBase : Base58Chars[j] # s[i]
    THEN [ok |-> FALSE, value |-> <<>>]
    ELSE [ok |-> TRUE, value |-> [i \in 1..AddrLen |-> Base58Val(s[i])]]

\* Pubkey::to_string
Pubkey_to_string(address) == [i \in 1..Len(address) |-> Base58Chars[address[i] + 1]]

\* the transact instruction of cmd_deposit, signed and paid by the keypair
DepositTransaction(keypair, proof_data) ==
    LET nullifier1_pda == find_program_address(proof_data.nullifier1)
        nullifier2_pda == find_program_address(proof_data.nullifier2)
    IN  [fee_payer |-> Wallet(keypair),
         signers |-> {Wallet(keypair)},
         accounts |-> <<AccountMeta(Config("tree_account"), FALSE),
                        AccountMeta(nullifier1_pda, FALSE),
                        AccountMeta(nullifier2_pda, FALSE),
                        AccountMeta(Config("global_config"), FALSE),
                        AccountMeta(Config("pool_vault"), FALSE),
                        AccountMeta(Wallet(keypair), TRUE),
                        AccountMeta(Wallet(keypair), FALSE),
                        AccountMeta(Config("system_program"), FALSE)>>,
         data |-> to_instruction_data(proof_data)]

\* mutant of WithdrawTransaction: the first marker is derived from extDataHash
WithdrawTransaction_MarkerFromExtData(keypair, recipient_pubkey, proof_data) ==
    LET nullifier1_pda == find_program_address(proof_data.ext_data_hash)
        nullifier2_pda == find_program_address(proof_data.nullifier2)
    IN  [fee_payer |-> Wallet(keypair),
         signers |-> {Wallet(keypair)},
         accounts |-> <<AccountMeta(Config("tree_account"), FALSE),
                        AccountMeta(nullifier1_pda, FALSE),
                        AccountMeta(nullifier2_pda, FALSE),
                        AccountMeta(Config("global_config"), FALSE),
                        AccountMeta(Config("pool_vault"), FALSE),
                        AccountMeta(Wallet(keypair), TRUE),
                        AccountMeta(Wallet(recipient_pubkey), FALSE),
                        AccountMeta(Config("system_program"), FALSE)>>,
         data |-> to_instruction_data(proof_data)]

\* the transact instruction of cmd_withdraw, signed and paid by the keypair
WithdrawTransaction(keypair, recipient_pubkey, proof_data) ==
    LET nullifier1_pda == find_program_address(proof_data.nullifier1)
        nullifier2_pda == find_program_address(proof_data.nullifier2)
    IN  [fee_payer |-> Wallet(keypair),
         signers |-> {Wallet(keypair)},
         accounts |-> <<AccountMeta(Config("tree_account"), FALSE),
                        AccountMeta(nullifier1_pda, FALSE),
                        AccountMeta(nullifier2_pda, FALSE),
                        AccountMeta(Config("global_config"), FALSE),
                        AccountMeta(Config("pool_vault"), FALSE),
                        AccountMeta(Wallet(keypair), TRUE),
                        AccountMeta(Wallet(recipient_pubkey), FALSE),
                        AccountMeta(Config("system_program"), FALSE)>>,
         data |-> to_instruction_data(proof_data)]

\* the nullifier markers the confirmed transactions have created
Markers(ch) ==
    {ch[i].accounts[2].pubkey : i \in 1..Len(ch)}
        \cup {ch[i].accounts[3].pubkey : i \in 1..Len(ch)}

\* the rule of the on-chain program on the nullifier markers: a transaction
\* whose marker exists already is rejected
ChainAccepts(ch, tx) ==
    /\ tx.accounts[2].pubkey \notin Markers(ch)
    /\ tx.accounts[3].pubkey \notin Markers(ch)
    /\ tx.accounts[2].pubkey # tx.accounts[3].pubkey

\* the next leaf index stored in the tree account: two leaves per transaction
TreeNextIndex(ch) == 2 * Len(ch)

\* big-endian bytes to an integer
RECURSIVE FromBe256(_, _)
FromBe256(bs, acc) ==
    IF bs = <<>> THEN acc ELSE FromBe256(Tail(bs), acc * 256 + Head(bs))

\* bytes_to_fr: 32 big-endian bytes, reduced modulo the field size
bytes_to_fr(b) ==
    IF b.num # <<>> THEN [ok |-> TRUE, value |-> b.num]
    ELSE IF Len(b.bytes) # FrBytes THEN ErrFr
    ELSE [ok |-> TRUE, value |-> Fr(FromBe256(b.bytes, 0))]

\* data[from..to] of a payload: the part that lies there, or the bytes of a
\* payload none of whose parts is a hash output; nothing when the range cuts
\* through a hash output
RECURSIVE Slice(_, _, _)
Slice(data, from, to) ==
    IF data = <<>> THEN Bytes(<<>>)
    ELSE IF from >= ByteLen(Head(data))
    THEN Slice(Tail(data), from - ByteLen(Head(data)), to - ByteLen(Head(data)))
    ELSE IF from = 0 /\ to = ByteLen(Head(data)) THEN Head(data)
    ELSE IF \A k \in 1..Len(data) : data[k].num = <<>>
    THEN Bytes(SubSeq(DataBytes(data), from + 1, to))
    ELSE Bytes(<<>>)

\* mutant of fetch_commitments_from_chain: the commitments are read one word
\* too early
RECURSIVE fetch_commitments_from_chain_ShiftedOffsets(_, _, _)
fetch_commitments_from_chain_ShiftedOffsets(ch, skipped, i) ==
    IF i > Len(ch) THEN <<>>
    ELSE LET data == ch[i].data
             c1 == bytes_to_fr(Slice(data, 328, 360))
             c2 == bytes_to_fr(Slice(data, 360, 392))
             found == IF i \in skipped THEN <<>>
                      ELSE IF DataLen(data) >= 424
                              /\ Slice(data, 0, 8) = Bytes(TRANSACT_DISCRIMINATOR)
                              /\ c1.ok /\ c2.ok
                      THEN <<c1.value, c2.value>>
                      ELSE <<>>
         IN  found \o fetch_commitments_from_chain_ShiftedOffsets(ch, skipped, i + 1)

\* fetch_commitments_from_chain: the two commitments of every transaction of
\* the tree account, oldest first; a transaction whose fetch fails is skipped
RECURSIVE fetch_commitments_from_chain(_, _, _)
fetch_commitments_from_chain(ch, skipped, i) ==
    IF i > Len(ch) THEN <<>>
    ELSE LET data == ch[i].data
             c1 == bytes_to_fr(Slice(data, 360, 392))
             c2 == bytes_to_fr(Slice(data, 392, 424))
             found == IF i \in skipped THEN <<>>
                      ELSE IF DataLen(data) >= 424
                              /\ Slice(data, 0, 8) = Bytes(TRANSACT_DISCRIMINATOR)
                              /\ c1.ok /\ c2.ok
                      THEN <<c1.value, c2.value>>
                      ELSE <<>>
         IN  found \o fetch_commitments_from_chain(ch, skipped, i + 1)

\* tree.insert(c) for every fetched commitment
RECURSIVE InsertAll(_, _)
InsertAll(t, cs) == IF cs = <<>> THEN t ELSE InsertAll(insert(t, Head(cs)), Tail(cs))

\* tree.leaves.iter().position(|l| l == commitment): the first index, or none
Position(leaves, c) ==
    IF \E i \in 1..Len(leaves) : leaves[i] = c
    THEN [found |-> TRUE,
          index |-> (CHOOSE i \in 1..Len(leaves) :
                        leaves[i] = c /\ \A j \in 1..(i - 1) : leaves[j] # c) - 1]
    ELSE [found |-> FALSE, index |-> 0]

(***************************************************************************)
(* Commands of the client (main.rs: cmd_deposit, cmd_withdraw,             *)
(* cmd_transfer, cmd_notes; notes.rs: NoteStore)                           *)
(*                                                                         *)
(* A command takes the chain and the note store and gives the new chain,   *)
(* the new store and its outcome.  Its input record holds the arguments,   *)
(* the values random_fr draws, the answers of the user and the step, if    *)
(* any, at which a collaborator (RPC node, circuit files, witness          *)
(* evaluator, prover, file system) fails.                                  *)
(***************************************************************************)
CmdResult(ch, st, c) == [chain |-> ch, store |-> st, cmd |-> c]

\* mutant of Abort: the note store is emptied
Abort_ClearsStore(ch, st, c) == CmdResult(ch, <<>>, c)

\* the ? operator: the command returns the error, nothing else is done
Abort(ch, st, c) == CmdResult(ch, st, c)

\* the root of the tree of all confirmed commitments
ChainRoot(ch) ==
    root(InsertAll(MerkleTree_new(MERKLE_TREE_HEIGHT),
                   fetch_commitments_from_chain(ch, {}, 1)))

\* NoteStore::add of the note of a deposit; generate_note_id gives an id no
\* other note has: the number of the transaction
DepositNote(st, lamports, utxo, current_leaf_index, signature) ==
    [id |-> signature,
     amount |-> lamports,
     privkey |-> utxo.privkey,
     pubkey |-> utxo.pubkey,
     blinding |-> utxo.blinding,
     commitment |-> utxo.commitment,
     leaf_index |-> current_leaf_index,
     status |-> "deposited",
     deposit_tx_sig |-> signature,
     withdraw_tx_sig |-> 0]

\* NoteStore::update_status: the first note with the id
update_status(st, id, status, tx_sig) ==
    IF \E i \in 1..Len(st) : st[i].id = id
    THEN LET i == CHOOSE i \in 1..Len(st) :
                     st[i].id = id /\ \A j \in 1..(i - 1) : st[j].id # id
         IN  [st EXCEPT ![i].status = status,
                        ![i].withdraw_tx_sig =
                            IF status = "withdrawn" THEN tx_sig ELSE @]
    ELSE st

\* NoteStore::import: the notes of the file whose commitment is not yet held
RECURSIVE import(_, _, _)
import(st, existing, imported) ==
    IF imported = <<>> THEN st
    ELSE import(IF Head(imported).commitment \in existing
                THEN st ELSE Append(st, Head(imported)),
                existing, Tail(imported))

\* NoteStore::import, the count returned: one for every note pushed
RECURSIVE import_count(_, _)
import_count(existing, imported) ==
    IF imported = <<>> THEN 0
    ELSE (IF Head(imported).commitment \in existing THEN 0 ELSE 1)
            + import_count(existing, Tail(imported))

\* NoteStore::delete: every note with the id is dropped
RECURSIVE delete(_, _)
delete(st, id) ==
    IF st = <<>> THEN <<>>
    ELSE (IF Head(st).id # id THEN <<Head(st)>> ELSE <<>>) \o delete(Tail(st), id)

\* NoteStore::export: the notes as they are, written to the file
export(st) == [exists |-> TRUE, notes |-> st]

\* cmd_deposit; in.others are the transactions of other users of the pool
\* confirmed after the tree account was read and before the transaction of
\* the command
cmd_deposit(ch, st, in) ==
    LET lamports == in.amount
        base == [name |-> "deposit", keypair |-> in.keypair, recipient |-> <<>>,
                 failed |-> "none", result |-> "ok", built |-> <<>>,
                 sent |-> <<>>, witnesses |-> <<>>]
        signature == Len(ch) + Len(in.others) + 1
        Err(stage, ws) ==
            Abort(ch, st, [base EXCEPT !.failed = stage, !.result = "err",
                                       !.witnesses = ws])
        \* send_and_confirm_transaction, then the note is added and saved
        Send(utxo, w, tx) ==
            IF in.fail = "send" \/ ~ChainAccepts(ch \o in.others, tx)
            THEN CmdResult(ch \o in.others, st,
                           [base EXCEPT !.failed = "send", !.result = "err",
                                                !.built = <<tx>>, !.witnesses = w])
            ELSE IF in.fail \in {"store_load", "store_save"}
            THEN CmdResult(Append(ch \o in.others, tx), st,
                           [base EXCEPT !.failed = in.fail, !.result = "err",
                                        !.built = <<tx>>, !.sent = <<signature>>,
                                        !.witnesses = w])
            ELSE CmdResult(Append(ch \o in.others, tx),
                           Append(st, DepositNote(st, lamports, utxo,
                                                  TreeNextIndex(ch), signature)),
                           [base EXCEPT !.built = <<tx>>, !.sent = <<signature>>,
                                        !.witnesses = w])
        \* the tree account is read, the instruction built, the blockhash read
        Build(utxo, w, proof_data) ==
            IF proof_data.status # "ok" THEN Err("decode", w)
            ELSE IF in.fail = "tree_rpc" THEN Err("tree_rpc", w)
            ELSE IF in.fail = "blockhash" THEN Err("blockhash", w)
            ELSE Send(utxo, w, DepositTransaction(in.keypair, proof_data.proof_data))
        \* prove_deposit from its witness inputs on
        Generate(utxo, inp, w) ==
            IF inp.status # "ok" THEN Err("inputs", <<>>)
            ELSE IF in.fail = "witness" THEN Err("witness", w)
            ELSE IF in.fail = "proving" THEN Err("proving", w)
            ELSE Build(utxo, w,
                       format_proof(in.proof,
                                    generate_proof(inp.inputs, in.fail # "witness",
                                                   in.fail # "proving").public_signals))
        Witness(utxo, payer_bytes, inp) ==
            Generate(utxo, inp,
                     <<[kind |-> "deposit", inputs |-> inp.inputs, amount |-> lamports,
                        counterparty |-> payer_bytes, utxo |-> utxo, leaf_index |-> 0]>>)
        \* from the generated UTXO on
        Prove(utxo, payer_bytes) ==
            Witness(utxo, payer_bytes,
                    DepositInputs(lamports, utxo, payer_bytes, ChainRoot(ch), in.rnd))
    IN  IF in.fail = "balance" THEN Err("balance", <<>>)
        ELSE IF ~in.skip_confirm /\ ~in.confirm
        THEN CmdResult(ch, st, [base EXCEPT !.failed = "cancelled"])
        ELSE IF in.fail = "circuit" THEN Err("circuit", <<>>)
        ELSE Prove(Utxo_new(lamports, in.rnd.k0, in.rnd.b0), in.keypair)

\* the notes with status "deposited", in store order
RECURSIVE Available(_)
Available(st) ==
    IF st = <<>> THEN <<>>
    ELSE (IF Head(st).status = "deposited" THEN <<Head(st)>> ELSE <<>>)
            \o Available(Tail(st))

\* cmd_withdraw
cmd_withdraw(ch, st, in) ==
    LET base == [name |-> "withdraw", keypair |-> in.keypair,
                 recipient |-> in.recipient, failed |-> "none", result |-> "ok",
                 built |-> <<>>, sent |-> <<>>, witnesses |-> <<>>]
        signature == Len(ch) + 1
        Err(stage, ws) ==
            Abort(ch, st, [base EXCEPT !.failed = stage, !.result = "err",
                                       !.witnesses = ws])
        \* send_and_confirm_transaction, then the note is marked and saved
        Send(note_, w, tx) ==
            IF in.fail = "send" \/ ~ChainAccepts(ch, tx)
            THEN CmdResult(ch, st, [base EXCEPT !.failed = "send", !.result = "err",
                                                !.built = <<tx>>, !.witnesses = w])
            ELSE IF in.fail \in {"store_reload", "store_save"}
            THEN CmdResult(Append(ch, tx), st,
                           [base EXCEPT !.failed = in.fail, !.result = "err",
                                        !.built = <<tx>>, !.sent = <<signature>>,
                                        !.witnesses = w])
            ELSE CmdResult(Append(ch, tx),
                           update_status(st, note_.id, "withdrawn", signature),
                           [base EXCEPT !.built = <<tx>>, !.sent = <<signature>>,
                                        !.witnesses = w])
        \* the instruction is built and the blockhash read
        Build(note_, recipient_bytes, w, proof_data) ==
            IF proof_data.status # "ok" THEN Err("decode", w)
            ELSE IF in.fail = "blockhash" THEN Err("blockhash", w)
            ELSE Send(note_, w,
                      WithdrawTransaction(in.keypair, recipient_bytes,
                                          proof_data.proof_data))
        \* prove_withdraw from its witness inputs on
        Generate(note_, recipient_bytes, inp, w) ==
            IF inp.status = "panic"
            THEN CmdResult(ch, st, [base EXCEPT !.failed = "panic", !.result = "panic"])
            ELSE IF inp.status # "ok" THEN Err("inputs", <<>>)
            ELSE IF in.fail = "witness" THEN Err("witness", w)
            ELSE IF in.fail = "proving" THEN Err("proving", w)
            ELSE Build(note_, recipient_bytes, w,
                       format_proof(in.proof,
                                    generate_proof(inp.inputs, in.fail # "witness",
                                                   in.fail # "proving").public_signals))
        Witness(note_, recipient_bytes, utxo, tree_, leaf_index, inp) ==
            Generate(note_, recipient_bytes, inp,
                     <<[kind |-> "withdraw", inputs |-> inp.inputs,
                        amount |-> note_.amount, counterparty |-> recipient_bytes,
                        utxo |-> utxo.utxo, leaf_index |-> leaf_index.index,
                        tree |-> tree_]>>)
        \* from the position of the commitment among the leaves on
        Prove(note_, recipient_bytes, utxo, tree_, leaf_index) ==
            IF ~leaf_index.found THEN Err("lookup", <<>>)
            ELSE Witness(note_, recipient_bytes, utxo, tree_, leaf_index,
                         WithdrawInputs(utxo.utxo, leaf_index.index, tree_,
                                        recipient_bytes, in.rnd))
        \* from the rebuilt tree on
        Lookup(note_, recipient_bytes, utxo, tree_, commitment_fr) ==
            IF ~commitment_fr.ok THEN Err("commitment", <<>>)
            ELSE Prove(note_, recipient_bytes, utxo, tree_,
                       Position(tree_.leaves, commitment_fr.value))
        \* from the reconstructed UTXO on: the commitments are fetched and
        \* inserted one by one
        Rebuild(note_, recipient_bytes, utxo) ==
            IF ~utxo.ok THEN Err("reconstruct", <<>>)
            ELSE IF in.fail = "tree_rpc" THEN Err("tree_rpc", <<>>)
            ELSE Lookup(note_, recipient_bytes, utxo,
                        InsertAll(MerkleTree_new(MERKLE_TREE_HEIGHT),
                                  fetch_commitments_from_chain(ch, in.skipped, 1)),
                        str_to_fr(note_.commitment))
        \* from the selected note on
        Withdraw(note_, recipient_bytes) ==
            IF ~in.skip_confirm /\ ~in.confirm
            THEN CmdResult(ch, st, [base EXCEPT !.failed = "cancelled"])
            ELSE IF in.fail = "circuit" THEN Err("circuit", <<>>)
            ELSE Rebuild(note_, recipient_bytes,
                         from_values(note_.amount, note_.privkey, note_.pubkey,
                                     note_.blinding))
        \* the note by id, else the latest, else the one picked at the prompt
        Select(recipient_pubkey, available_notes, byId) ==
            IF ~recipient_pubkey.ok THEN Err("recipient", <<>>)
            ELSE IF in.fail = "store_load" THEN Err("store_load", <<>>)
            ELSE IF available_notes = <<>>
            THEN CmdResult(ch, st, [base EXCEPT !.failed = "no_notes"])
            ELSE IF in.note_id # 0 /\ byId = {} THEN Err("note_id", <<>>)
            ELSE IF in.note_id = 0 /\ ~in.skip_confirm
                    /\ in.selection \notin 1..Len(available_notes)
            THEN Err("selection", <<>>)
            ELSE Withdraw(IF in.note_id # 0
                          THEN available_notes[CHOOSE i \in byId : \A j \in byId : i <= j]
                          ELSE IF in.skip_confirm
                          THEN available_notes[Len(available_notes)]
                          ELSE available_notes[in.selection],
                          recipient_pubkey.value)
        Notes(recipient_pubkey, available_notes) ==
            Select(recipient_pubkey, available_notes,
                   {i \in 1..Len(available_notes) : available_notes[i].id = in.note_id})
    IN  Notes(Pubkey_from_str(in.recipient), Available(st))

\* the last note with status "deposited"
LatestNoteId(st) ==
    LET a == Available(st) IN IF a = <<>> THEN 0 ELSE a[Len(a)].id

\* cmd_transfer: cmd_deposit, then cmd_withdraw of the latest deposited note,
\* both with the same keypair and without prompt
cmd_transfer(ch, st, in) ==
    LET base == [name |-> "transfer", keypair |-> in.keypair,
                 recipient |-> in.recipient, failed |-> "none", result |-> "ok",
                 built |-> <<>>, sent |-> <<>>, witnesses |-> <<>>]
        \* the outcome of the deposit d followed by the withdrawal w
        Both(d, w) ==
            CmdResult(w.chain, w.store,
                      [base EXCEPT !.failed = w.cmd.failed, !.result = w.cmd.result,
                                   !.built = d.cmd.built \o w.cmd.built,
                                   !.sent = d.cmd.sent \o w.cmd.sent,
                                   !.witnesses = d.cmd.witnesses \o w.cmd.witnesses])
        \* the transfer stops after the deposit d
        Stop(d, stage, result) ==
            CmdResult(d.chain, d.store,
                      [base EXCEPT !.failed = stage, !.result = result,
                                   !.built = d.cmd.built, !.sent = d.cmd.sent,
                                   !.witnesses = d.cmd.witnesses])
        \* from the outcome of cmd_deposit on
        Withdraw(d, latest) ==
            IF d.cmd.result # "ok" THEN Stop(d, d.cmd.failed, d.cmd.result)
            ELSE IF in.fail_withdraw = "store_latest" THEN Stop(d, "store_latest", "err")
            ELSE IF latest = 0 THEN Stop(d, "no_notes", "err")
            ELSE Both(d, cmd_withdraw(d.chain, d.store,
                                      [keypair |-> in.keypair, recipient |-> in.recipient,
                                       note_id |-> latest, skip_confirm |-> TRUE,
                                       confirm |-> TRUE, selection |-> 0,
                                       fail |-> in.fail_withdraw, skipped |-> in.skipped,
                                       rnd |-> in.rnd_withdraw, proof |-> in.proof]))
        Deposited(d) == Withdraw(d, LatestNoteId(d.store))
    IN  IF ~Pubkey_from_str(in.recipient).ok
        THEN CmdResult(ch, st, [base EXCEPT !.failed = "recipient", !.result = "err"])
        ELSE IF ~in.skip_confirm /\ ~in.confirm
        THEN CmdResult(ch, st, [base EXCEPT !.failed = "cancelled"])
        ELSE Deposited(cmd_deposit(ch, st,
                                   [keypair |-> in.keypair, amount |-> in.amount,
                                    skip_confirm |-> TRUE, confirm |-> TRUE,
                                    fail |-> in.fail_deposit, rnd |-> in.rnd_deposit,
                                    proof |-> in.proof, others |-> <<>>]))

(***************************************************************************)
(* Specification of the client: deposits, withdrawals, transfers and note  *)
(* imports, by two wallets sharing one note store, on one chain            *)
(***************************************************************************)
\* most transactions confirmed on the chain
MaxTx == 2

\* an address with a first and a last byte
Addr(first, last) ==
    [i \in 1..AddrLen |-> IF i = 1 THEN first ELSE IF i = AddrLen THEN last ELSE 0]

Keypairs == {Addr(1, 0), Addr(2, 0)}

\* recipient arguments: two addresses with the same prefix, and a string that
\* is no address
RecipientTexts ==
    {Pubkey_to_string(Addr(3, 0)), Pubkey_to_string(Addr(3, 1)), <<"0">>}

\* amounts in lamports: none, one that fits i64 and one that does not
CliAmounts == {0, 1, I64Max + 1}

\* values drawn by random_fr during a deposit: two different draws, and a draw
\* that repeats the note keys of the first with other dummies
DepositDraws ==
    {[k0 |-> Fr(1), b0 |-> Fr(2), k1 |-> Fr(3), b1 |-> Fr(4),
      k2 |-> Fr(5), b2 |-> Fr(6), k3 |-> Fr(7), b3 |-> Fr(8)],
     [k0 |-> Fr(2), b0 |-> Fr(1), k1 |-> Fr(4), b1 |-> Fr(3),
      k2 |-> Fr(6), b2 |-> Fr(5), k3 |-> Fr(8), b3 |-> Fr(7)],
     [k0 |-> Fr(1), b0 |-> Fr(2), k1 |-> Fr(9), b1 |-> Fr(10),
      k2 |-> Fr(10), b2 |-> Fr(9), k3 |-> Fr(3), b3 |-> Fr(3)]}

WithdrawDraws ==
    {[dummy_blinding |-> Fr(1), out_blinding1 |-> Fr(2), out_blinding2 |-> Fr(3)],
     [dummy_blinding |-> Fr(4), out_blinding1 |-> Fr(5), out_blinding2 |-> Fr(6)]}

\* the Groth16 proof of generate_proof: its eight coordinates
CliProof ==
    [a_x |-> 1, a_y |-> 2, b_x0 |-> 3, b_x1 |-> 4, b_y0 |-> 5, b_y1 |-> 6,
     c_x |-> 7, c_y |-> 8]

DepositFailures ==
    {"none", "balance", "circuit", "witness", "proving", "tree_rpc", "blockhash",
     "send", "store_load", "store_save"}

WithdrawFailures ==
    {"none", "store_load", "circuit", "tree_rpc", "witness", "proving",
     "blockhash", "send", "store_reload", "store_save"}

\* the answers of the user and the failing step of a run: every failing step
\* of a run without prompt, and the runs with a prompt accepted or declined
DepositRuns ==
    {[skip_confirm |-> TRUE, confirm |-> TRUE, fail |-> f] : f \in DepositFailures}
    \cup {[skip_confirm |-> FALSE, confirm |-> c, fail |-> "none"] : c \in BOOLEAN}

\* the note asked for: by id (known or not), the latest, or picked at the
\* prompt; then the answer to the confirmation
Choices(st) ==
    {[note_id |-> id, skip_confirm |-> TRUE, confirm |-> TRUE, selection |-> 0] :
        id \in {0, 99} \cup {st[i].id : i \in 1..Len(st)}}
    \cup {[note_id |-> 0, skip_confirm |-> FALSE, confirm |-> c, selection |-> s] :
            c \in BOOLEAN, s \in 1..Len(st)}

\* the failing step, the transactions whose fetch fails and the values drawn
WithdrawRuns(ch) ==
    {[fail |-> f, skipped |-> {}, rnd |-> r] :
        f \in {"none"}, r \in WithdrawDraws}
    \cup {[fail |-> f, skipped |-> {},
           rnd |-> [dummy_blinding |-> Fr(1), out_blinding1 |-> Fr(2),
                    out_blinding2 |-> Fr(3)]] : f \in WithdrawFailures}
    \cup {[fail |-> "none", skipped |-> {1},
           rnd |-> [dummy_blinding |-> Fr(4), out_blinding1 |-> Fr(5),
                    out_blinding2 |-> Fr(6)]] : i \in 1..Len(ch)}

\* the failing steps of the two halves of a transfer
TransferRuns ==
    {[fail_deposit |-> f, fail_withdraw |-> "none"] : f \in DepositFailures}
    \cup {[fail_deposit |-> "none", fail_withdraw |-> f] :
            f \in WithdrawFailures \cup {"store_latest"}}

\* the import files: one file of three notes, one with a malformed private
\* key, one whose commitment is on no chain, one with a malformed commitment
ImportFiles ==
    {<<[id |-> 101, amount |-> 1, privkey |-> Text(<<"x">>),
        pubkey |-> Text(<<"1">>), blinding |-> Text(<<"1">>),
        commitment |-> Text(<<"5">>), leaf_index |-> 0, status |-> "deposited",
        deposit_tx_sig |-> 0, withdraw_tx_sig |-> 0],
       [id |-> 102, amount |-> 1, privkey |-> Text(<<"1">>),
        pubkey |-> Text(<<"1">>), blinding |-> Text(<<"1">>),
        commitment |-> Text(<<"6">>), leaf_index |-> 0, status |-> "deposited",
        deposit_tx_sig |-> 0, withdraw_tx_sig |-> 0],
       [id |-> 103, amount |-> 1, privkey |-> Text(<<"1">>),
        pubkey |-> Text(<<"1">>), blinding |-> Text(<<"1">>),
        commitment |-> Text(<<"x">>), leaf_index |-> 0, status |-> "deposited",
        deposit_tx_sig |-> 0, withdraw_tx_sig |-> 0]>>}

InitCli ==
    /\ IdleCli
    /\ IdleTree /\ IdleUtxo /\ IdleCodec /\ IdleAmount /\ IdleWire /\ IdleRelay

CmdDeposit ==
    /\ cmd = NoCmd
    /\ Len(chain) < MaxTx
    /\ \E keypair \in Keypairs, amount \in CliAmounts, run \in DepositRuns,
          rnd \in DepositDraws :
          \E r \in {cmd_deposit(chain, store,
                                 [keypair |-> keypair, amount |-> amount,
                                  skip_confirm |-> run.skip_confirm,
                                  confirm |-> run.confirm, fail |-> run.fail,
                                  rnd |-> rnd, proof |-> CliProof,
                                  others |-> <<>>])} :
             chain' = r.chain /\ store' = r.store /\ cmd' = r.cmd
    /\ UNCHANGED <<treeVars, utxoVars, codecVars, amountVars, wireVars, relayVars, fileVars>>

CmdWithdraw ==
    /\ cmd = NoCmd
    /\ \E keypair \in Keypairs, recipient \in RecipientTexts,
          choice \in Choices(store), run \in WithdrawRuns(chain) :
          \E r \in {cmd_withdraw(chain, store,
                                  [keypair |-> keypair, recipient |-> recipient,
                                   note_id |-> choice.note_id,
                                   skip_confirm |-> choice.skip_confirm,
                                   confirm |-> choice.confirm,
                                   selection |-> choice.selection,
                                   fail |-> run.fail, skipped |-> run.skipped,
                                   rnd |-> run.rnd, proof |-> CliProof])} :
             Len(r.chain) <= MaxTx /\ chain' = r.chain /\ store' = r.store /\ cmd' = r.cmd
    /\ UNCHANGED <<treeVars, utxoVars, codecVars, amountVars, wireVars, relayVars, fileVars>>

CmdTransfer ==
    /\ cmd = NoCmd
    /\ Len(chain) + 2 <= MaxTx
    /\ \E keypair \in Keypairs, amount \in CliAmounts, recipient \in RecipientTexts,
          skip_confirm \in BOOLEAN, run \in TransferRuns,
          rnd_deposit \in DepositDraws, rnd_withdraw \in WithdrawDraws :
          \E r \in {cmd_transfer(chain, store,
                                  [keypair |-> keypair, amount |-> amount,
                                   recipient |-> recipient,
                                   skip_confirm |-> skip_confirm,
                                   confirm |-> FALSE,
                                   fail_deposit |-> run.fail_deposit,
                                   fail_withdraw |-> run.fail_withdraw,
                                   skipped |-> {},
                                   rnd_deposit |-> rnd_deposit,
                                   rnd_withdraw |-> rnd_withdraw,
                                   proof |-> CliProof])} :
             chain' = r.chain /\ store' = r.store /\ cmd' = r.cmd
    /\ UNCHANGED <<treeVars, utxoVars, codecVars, amountVars, wireVars, relayVars, fileVars>>

\* cmd_notes, NotesAction::Import
CmdNotesImport ==
    /\ cmd = NoCmd
    /\ \E file \in ImportFiles :
          /\ store' = import(store, {store[i].commitment : i \in 1..Len(store)}, file)
          /\ cmd' = [NoCmd EXCEPT !.name = "import", !.result = "ok"]
    /\ UNCHANGED chain
    /\ UNCHANGED <<treeVars, utxoVars, codecVars, amountVars, wireVars, relayVars, fileVars>>

\* main returns: the process of the command ends
Exit ==
    /\ cmd # NoCmd
    /\ cmd' = NoCmd
    /\ UNCHANGED <<chain, store>>
    /\ UNCHANGED <<treeVars, utxoVars, codecVars, amountVars, wireVars, relayVars, fileVars>>

NextCli == CmdDeposit \/ CmdWithdraw \/ CmdTransfer \/ CmdNotesImport \/ Exit

SpecCli == InitCli /\ [][NextCli]_vars

(***************************************************************************)
(* C11: the amounts of a witness input mapping balance                     *)
(***************************************************************************)
\* the witness input mappings the last command built (prove_deposit,
\* prove_withdraw), with the arguments they were built from
Witnesses == {cmd.witnesses[i] : i \in 1..Len(cmd.witnesses)}

\* C11: in every witness input mapping built by prove_deposit or
\* prove_withdraw, (inAmount[0] + inAmount[1] + publicAmount) mod r equals
\* (outAmount[0] + outAmount[1]) mod r.
C11_AmountsBalance ==
    \A w \in Witnesses :
        (IntOf(w.inputs.inAmount[1]) + IntOf(w.inputs.inAmount[2])
            + IntOf(w.inputs.publicAmount[1])) % FIELD_SIZE
        = (IntOf(w.inputs.outAmount[1]) + IntOf(w.inputs.outAmount[2])) % FIELD_SIZE

\* a transfer has built the mapping of a deposit, whose public amount is the
\* amount, and the mapping of the withdrawal, whose public amount is r - amount
C11_Witness ==
    /\ cmd.name = "transfer"
    /\ Len(cmd.witnesses) = 2
    /\ cmd.witnesses[1].kind = "deposit"
    /\ cmd.witnesses[1].inputs.publicAmount[1] = BigInt_from(cmd.witnesses[1].amount)
    /\ cmd.witnesses[1].amount > 0
    /\ cmd.witnesses[2].kind = "withdraw"
    /\ cmd.witnesses[2].inputs.inAmount[1] = BigInt_from(cmd.witnesses[2].amount)
    /\ cmd.witnesses[2].inputs.publicAmount[1]
         = BigInt_from(FIELD_SIZE - cmd.witnesses[2].amount)

(***************************************************************************)
(* C12: what extDataHash binds                                             *)
(***************************************************************************)
\* the addresses of the wallets and of the recipients
Counterparties == Keypairs \cup {Addr(3, 0), Addr(3, 1)}

\* the extDataHash prove_deposit and prove_withdraw compute for a counterparty
\* address and an amount
ExtDataHashOf(address, amount) ==
    compute_ext_data_hash(from_bytes_be(AddressPrefix(address), 0), amount)

\* C12 as stated: any (address, amount) pair that differs from the pair a
\* witness was built for gives a different extDataHash.
C12_DistinctPairsDistinctHash ==
    \A w \in Witnesses : \A c \in Counterparties, a \in CliAmounts :
        <<c, a>> # <<w.counterparty, w.amount>>
            => ExtDataHashOf(c, a) # w.inputs.extDataHash[1]

\* C12 amended: extDataHash is the hash of the first bytes of the address and
\* of the amount, so a pair gives the extDataHash of a witness exactly when
\* its address has the same prefix and its amount is the same.
C12_PrefixAndAmountBound ==
    \A w \in Witnesses :
        /\ w.inputs.extDataHash[1] = ExtDataHashOf(w.counterparty, w.amount)
        /\ \A c \in Counterparties, a \in CliAmounts :
              ExtDataHashOf(c, a) = w.inputs.extDataHash[1]
                  <=> /\ AddressPrefix(c) = AddressPrefix(w.counterparty)
                      /\ a = w.amount

\* a withdrawal to one recipient has an extDataHash that another recipient,
\* equal on the prefix only, also gives, and that no other amount and no other
\* prefix gives
C12_Witness ==
    \E w \in Witnesses :
        /\ w.kind = "withdraw"
        /\ w.counterparty = Addr(3, 0)
        /\ ExtDataHashOf(Addr(3, 1), w.amount) = w.inputs.extDataHash[1]
        /\ ExtDataHashOf(Addr(1, 0), w.amount) # w.inputs.extDataHash[1]
        /\ \E a \in CliAmounts : ExtDataHashOf(Addr(3, 0), a) # w.inputs.extDataHash[1]

(***************************************************************************)
(* Specification of the proof formatting: format_proof, then               *)
(* to_instruction_data, of a proof and seven public signals                *)
(***************************************************************************)
\* the proofs: every coordinate is one byte with value 0, one byte, or two bytes
Proofs ==
    LET CoordValues == {0, 1, BN254_FIELD_MODULUS - 1}
    IN  {[a_x |-> x, a_y |-> y, b_x0 |-> z, b_x1 |-> w, b_y0 |-> x, b_y1 |-> y,
          c_x |-> z, c_y |-> w] :
            x \in CoordValues, y \in CoordValues, z \in CoordValues,
            w \in CoordValues}

\* seven public signals: the amount signal is that of a deposit, of a
\* withdrawal, or out of range; the others are small values or hash outputs,
\* the two nullifiers and the two commitments being chosen independently
PublicSignals ==
    LET HashSignals == {Fr(0), Fr(FIELD_SIZE - 1), hash2(Fr(0), Fr(0))}
        SecondSignals == {Fr(1), hash1(Fr(1))}
        AmountSignals == {Fr(0), Fr(1), Fr(FIELD_SIZE - 1), Fr(I64Max + 1)}
    IN  {<<root_, a, e, n1, n2, c1, c2>> :
            root_ \in HashSignals, a \in AmountSignals, e \in HashSignals,
            n1 \in HashSignals, n2 \in SecondSignals,
            c1 \in HashSignals, c2 \in SecondSignals}

InitWire ==
    /\ proof \in {[coords |-> pi, public_signals |-> s] :
                     pi \in Proofs, s \in PublicSignals}
    /\ wire = NoWire
    /\ IdleCli /\ IdleRelay
    /\ IdleTree /\ IdleUtxo /\ IdleCodec /\ IdleAmount

FormatProof ==
    /\ ~wire.called
    /\ LET r == format_proof(proof.coords, proof.public_signals)
       IN  wire' = [called |-> TRUE,
                    ok |-> r.status = "ok",
                    proof_data |-> r.proof_data,
                    data |-> IF r.status = "ok"
                             THEN to_instruction_data(r.proof_data) ELSE <<>>]
    /\ UNCHANGED proof
    /\ UNCHANGED <<treeVars, utxoVars, codecVars, amountVars, cliVars, relayVars, fileVars>>

NextWire == FormatProof

SpecWire == InitWire /\ [][NextWire]_vars

(***************************************************************************)
(* C13: the length of the instruction payload                              *)
(***************************************************************************)
\* Vec::with_capacity(8 + 64 + 128 + 64 + 32 * 5 + 8 + 32)
PayloadLength == 8 + 64 + 128 + 64 + 32 * 5 + 8 + 32

\* C13: every instruction payload produced by format_proof followed by
\* to_instruction_data is exactly 8+64+128+64+32*5+8+32 = 464 bytes long,
\* whatever the coordinates of the proof and the seven public signals.
C13_PayloadLength ==
    wire.called /\ wire.ok =>
        /\ PayloadLength = 464
        /\ DataLen(wire.data) = PayloadLength
        /\ (\A i \in 1..Len(wire.data) : wire.data[i].num = <<>>)
              => Len(DataBytes(wire.data)) = PayloadLength

\* a payload of a proof with a zero coordinate and of signals that are all
\* small values, the root being zero: every byte of it is known
C13_Witness ==
    /\ wire.called /\ wire.ok
    /\ proof.coords.a_x = 0
    /\ proof.coords.a_y = BN254_FIELD_MODULUS - 1
    /\ proof.public_signals[1] = Fr(0)
    /\ \A i \in 1..Len(wire.data) : wire.data[i].num = <<>>
    /\ Len(DataBytes(wire.data)) = 464

(***************************************************************************)
(* C14: the depositor and the withdrawal transaction                       *)
(***************************************************************************)
\* the accounts a transaction names: its signers and its account list
AccountsOf(tx) ==
    tx.signers \cup {tx.fee_payer}
        \cup {tx.accounts[k].pubkey : k \in 1..Len(tx.accounts)}

\* C14: there is no on-chain link between the depositor and the recipient:
\* for every note deposited and withdrawn, the address that signed and paid
\* the deposit transaction is not among the signers or accounts of the
\* withdrawal transaction that names the recipient.
C14_NoOnChainLink ==
    \A i \in 1..Len(store) :
        LET n == store[i]
        IN  (/\ n.status = "withdrawn"
             /\ n.deposit_tx_sig \in 1..Len(chain)
             /\ n.withdraw_tx_sig \in 1..Len(chain))
            => chain[n.deposit_tx_sig].fee_payer
                  \notin AccountsOf(chain[n.withdraw_tx_sig])

(***************************************************************************)
(* C15: a note is spent at most once                                       *)
(***************************************************************************)
\* the withdrawal attempts of the last command that built a transaction: the
\* witness and the transaction built from it
Attempts ==
    {[w |-> cmd.witnesses[i], tx |-> cmd.built[i]] :
        i \in {j \in 1..Len(cmd.built) : cmd.witnesses[j].kind = "withdraw"}}

\* the marker address of the nullifier of a note at a leaf index
MarkerOf(utxo, leaf_index) ==
    find_program_address(fr_to_be_bytes(compute_nullifier(utxo, leaf_index).value))

\* C15: every withdrawal attempt of a note at a leaf index publishes the
\* nullifier of that note at that index as nullifier1 and names the marker
\* address derived from it, whatever the recipient and the values drawn; with
\* the on-chain rule rejecting an existing marker, at most one confirmed
\* transaction names the marker of a note.
C15_SpentAtMostOnce ==
    /\ \A a \in Attempts :
          /\ a.w.inputs.inputNullifier[1]
                = BigInt_of(compute_nullifier(a.w.utxo, a.w.leaf_index).value)
          /\ a.tx.data[6] = fr_to_be_bytes(compute_nullifier(a.w.utxo, a.w.leaf_index).value)
          /\ a.tx.accounts[2].pubkey = MarkerOf(a.w.utxo, a.w.leaf_index)
          /\ Cardinality({i \in 1..Len(chain) :
                            chain[i].accounts[2].pubkey
                                = MarkerOf(a.w.utxo, a.w.leaf_index)}) <= 1
    /\ \A i \in 1..Len(chain), j \in 1..Len(chain) :
          i # j => chain[i].accounts[2].pubkey # chain[j].accounts[2].pubkey

\* a second withdrawal of a note already withdrawn on the chain, to another
\* recipient and with other values drawn, names the same marker and is rejected
C15_Witness ==
    /\ cmd.name = "withdraw" /\ cmd.failed = "send" /\ cmd.sent = <<>>
    /\ \E a \in Attempts : \E i \in 1..Len(chain) :
          /\ chain[i].accounts[2].pubkey = a.tx.accounts[2].pubkey
          /\ chain[i].accounts[2].pubkey = MarkerOf(a.w.utxo, a.w.leaf_index)
          /\ chain[i].accounts[7].pubkey # a.tx.accounts[7].pubkey
          /\ chain[i].accounts[3].pubkey # a.tx.accounts[3].pubkey
          /\ chain[i].data[8] # a.tx.data[8]

(***************************************************************************)
(* The relayer (relayer/src/main.rs: relay_withdraw)                       *)
(*                                                                         *)
(* The texts of a request are sequences of characters; BASE64.decode and   *)
(* hex::decode are modelled on the characters used here.                   *)
(***************************************************************************)
DecodeErr == [ok |-> FALSE, value |-> <<>>]

\* the base64 characters used and their values
B64Val == [c \in {"A", "B", "Q", "/"} |->
              IF c = "A" THEN 0 ELSE IF c = "B" THEN 1 ELSE IF c = "Q" THEN 16 ELSE 63]

\* the bytes of groups of four 6-bit values
RECURSIVE B64Bytes(_)
B64Bytes(vals) ==
    IF Len(vals) < 4 THEN <<>>
    ELSE <<vals[1] * 4 + vals[2] \div 16,
           (vals[2] % 16) * 16 + vals[3] \div 4,
           (vals[3] % 4) * 64 + vals[4]>> \o B64Bytes(SubSeq(vals, 5, Len(vals)))

\* BASE64.decode, the standard alphabet with canonical padding
base64_decode(s) ==
    LET n == Len(s)
        pad == IF n >= 2 /\ s[n] = "=" /\ s[n - 1] = "=" THEN 2
               ELSE IF n >= 1 /\ s[n] = "=" THEN 1 ELSE 0
        body == SubSeq(s, 1, n - pad)
        vals == [i \in 1..n |-> IF i <= Len(body) THEN B64Val[body[i]] ELSE 0]
        last == B64Val[body[Len(body)]]
    IN  IF n % 4 # 0 THEN DecodeErr
        ELSE IF \E i \in 1..Len(body) : body[i] \notin DOMAIN B64Val THEN DecodeErr
        ELSE IF pad = 1 /\ last % 4 # 0 THEN DecodeErr
        ELSE IF pad = 2 /\ last % 16 # 0 THEN DecodeErr
        ELSE [ok |-> TRUE,
              value |-> SubSeq(B64Bytes(vals), 1, (Len(body) * 6) \div 8)]

\* the hexadecimal digits, by value
HexChars == DigitChars \o <<"a", "b", "c", "d", "e", "f">>

HexVal(c) == (CHOOSE i \in 1..Len(HexChars) : HexChars[i] = c) - 1

\* hex::decode: an even number of hexadecimal digits
hex_decode(s) ==
    IF Len(s) % 2 # 0 THEN DecodeErr
    ELSE IF \E i \in 1..Len(s) : \A j \in 1..Len(HexChars) : HexChars[j] # s[i]
    THEN DecodeErr
    ELSE [ok |-> TRUE,
          value |-> [i \in 1..(Len(s) \div 2) |->
                        HexVal(s[2 * i - 1]) * 16 + HexVal(s[2 * i])]]

\* Pubkey::find_program_address panics on a seed longer than MAX_SEED_LEN
MAX_SEED_LEN == FrBytes

\* the response of a rejected request
Failure(error) == [success |-> FALSE, signature |-> <<>>, error |-> <<error>>]

\* mutant of FirstInvalid: the recipient is checked first
FirstInvalid_RecipientFirst(req) ==
    IF ~Pubkey_from_str(req.recipient).ok THEN "Invalid recipient"
    ELSE IF ~base64_decode(req.instruction_data).ok THEN "Invalid instruction data"
    ELSE IF ~hex_decode(req.nullifier1).ok THEN "Invalid nullifier1"
    ELSE IF ~hex_decode(req.nullifier2).ok THEN "Invalid nullifier2"
    ELSE "none"

\* relay_withdraw, parsing of the inputs: the error of the first input that
\* does not parse
FirstInvalid(req) ==
    IF ~base64_decode(req.instruction_data).ok THEN "Invalid instruction data"
    ELSE IF ~hex_decode(req.nullifier1).ok THEN "Invalid nullifier1"
    ELSE IF ~hex_decode(req.nullifier2).ok THEN "Invalid nullifier2"
    ELSE IF ~Pubkey_from_str(req.recipient).ok THEN "Invalid recipient"
    ELSE "none"

\* the transact instruction of the relayer, signed and paid by its keypair
RelayTransaction(relayer_keypair, req) ==
    LET instruction_data == base64_decode(req.instruction_data).value
        nullifier1 == hex_decode(req.nullifier1).value
        nullifier2 == hex_decode(req.nullifier2).value
        recipient == Pubkey_from_str(req.recipient).value
        nullifier1_pda == find_program_address(Bytes(nullifier1))
        nullifier2_pda == find_program_address(Bytes(nullifier2))
    IN  [fee_payer |-> Wallet(relayer_keypair),
         signers |-> {Wallet(relayer_keypair)},
         accounts |-> <<AccountMeta(Config("tree_account"), FALSE),
                        AccountMeta(nullifier1_pda, FALSE),
                        AccountMeta(nullifier2_pda, FALSE),
                        AccountMeta(Config("global_config"), FALSE),
                        AccountMeta(Config("pool_vault"), FALSE),
                        AccountMeta(Wallet(relayer_keypair), TRUE),
                        AccountMeta(Wallet(recipient), FALSE),
                        AccountMeta(Config("fee_recipient"), FALSE),
                        AccountMeta(Config("system_program"), FALSE)>>,
         data |-> <<Bytes(instruction_data)>>]

\* relay_withdraw: the new chain and the outcome of the request; fail is the
\* RPC call, if any, that fails
relay_withdraw(ch, relayer_keypair, req, fail) ==
    LET invalid == FirstInvalid(req)
        tx == RelayTransaction(relayer_keypair, req)
        base == [called |-> TRUE, request |-> req, status |-> "ok",
                 response |-> NoResponse, built |-> <<>>, submitted |-> <<>>]
    IN  IF invalid # "none"
        THEN [chain |-> ch, relay |-> [base EXCEPT !.response = Failure(invalid)]]
        ELSE IF Len(hex_decode(req.nullifier1).value) > MAX_SEED_LEN
                \/ Len(hex_decode(req.nullifier2).value) > MAX_SEED_LEN
        THEN [chain |-> ch, relay |-> [base EXCEPT !.status = "panic"]]
        ELSE IF fail = "blockhash"
        THEN [chain |-> ch,
              relay |-> [base EXCEPT !.response = Failure("Failed to get blockhash")]]
        ELSE IF fail = "send" \/ ~ChainAccepts(ch, tx)
        THEN [chain |-> ch,
              relay |-> [base EXCEPT !.response = Failure("Transaction failed"),
                                     !.built = <<tx>>, !.submitted = <<tx>>]]
        ELSE [chain |-> Append(ch, tx),
              relay |-> [base EXCEPT !.response = [success |-> TRUE,
                                                  signature |-> <<Len(ch) + 1>>,
                                                  error |-> <<>>],
                                     !.built = <<tx>>, !.submitted = <<tx>>]]

(***************************************************************************)
(* Specification of the relayer: requests handled one after the other      *)
(***************************************************************************)
\* the texts of instruction data: three that decode, three that do not
Base64Texts ==
    {<<>>, <<"A", "A", "A", "A">>, <<"A", "Q", "=", "=">>,
     <<"A">>, <<"A", "A", "=", "A">>, <<"A", "B", "=", "=">>, <<"A", "*", "A", "A">>}

\* the texts of a nullifier: two that decode, one that decodes to a seed too
\* long, two that do not decode
HexTexts ==
    {<<"0", "0">>, <<"0", "a">>, [i \in 1..(2 * MAX_SEED_LEN + 2) |-> "0"],
     <<"0">>, <<"0", "g">>}

Requests ==
    {[instruction_data |-> d, nullifier1 |-> n1, nullifier2 |-> n2, recipient |-> r] :
        d \in Base64Texts, n1 \in HexTexts, n2 \in HexTexts, r \in RecipientTexts}

\* the keypair of the relayer
RelayerKeypair == Addr(0, 1)

InitRelay ==
    /\ IdleCli /\ IdleRelay /\ IdleWire
    /\ IdleTree /\ IdleUtxo /\ IdleCodec /\ IdleAmount

RelayWithdraw ==
    /\ ~relay.called
    /\ Len(chain) < MaxTx
    /\ \E req \in Requests, fail \in {"none", "blockhash", "send"} :
          LET r == relay_withdraw(chain, RelayerKeypair, req, fail)
          IN  chain' = r.chain /\ relay' = r.relay
    /\ UNCHANGED <<store, cmd, handlers>>
    /\ UNCHANGED <<treeVars, utxoVars, codecVars, amountVars, wireVars, fileVars>>

\* the response is returned (or the handler has panicked)
Respond ==
    /\ relay.called
    /\ relay' = NoRelay
    /\ UNCHANGED <<chain, store, cmd, handlers>>
    /\ UNCHANGED <<treeVars, utxoVars, codecVars, amountVars, wireVars, fileVars>>

NextRelay == RelayWithdraw \/ Respond

SpecRelay == InitRelay /\ [][NextRelay]_vars

(***************************************************************************)
(* C16: the responses of the relay endpoint                                *)
(***************************************************************************)
\* C16: in every response success is true exactly when the signature is
\* present and the error absent; a request whose instruction data is not
\* base64, whose nullifier1 or nullifier2 is not hex, or whose recipient is no
\* address, checked in that order, is answered with success = false and the
\* error of that check, and no transaction is built or submitted for it.
C16_RelayResponses ==
    relay.called =>
        LET req == relay.request
            Rejected(error) ==
                /\ relay.status = "ok"
                /\ relay.response = Failure(error)
                /\ relay.built = <<>> /\ relay.submitted = <<>>
        IN  /\ relay.status = "ok" =>
                 /\ relay.response.success
                       <=> (relay.response.signature # <<>> /\ relay.response.error = <<>>)
                 /\ relay.response.signature # <<>> \/ relay.response.error # <<>>
            /\ ~base64_decode(req.instruction_data).ok
                  => Rejected("Invalid instruction data")
            /\ (base64_decode(req.instruction_data).ok /\ ~hex_decode(req.nullifier1).ok)
                  => Rejected("Invalid nullifier1")
            /\ (/\ base64_decode(req.instruction_data).ok
                /\ hex_decode(req.nullifier1).ok
                /\ ~hex_decode(req.nullifier2).ok)
                  => Rejected("Invalid nullifier2")
            /\ (/\ base64_decode(req.instruction_data).ok
                /\ hex_decode(req.nullifier1).ok
                /\ hex_decode(req.nullifier2).ok
                /\ ~Pubkey_from_str(req.recipient).ok)
                  => Rejected("Invalid recipient")

\* a request whose four inputs are all invalid is answered with the error of
\* the instruction data, after a request that was relayed with success
C16_Witness ==
    /\ relay.called
    /\ Len(chain) = 1
    /\ ~base64_decode(relay.request.instruction_data).ok
    /\ ~hex_decode(relay.request.nullifier1).ok
    /\ ~hex_decode(relay.request.nullifier2).ok
    /\ ~Pubkey_from_str(relay.request.recipient).ok
    /\ relay.response = Failure("Invalid instruction data")

(***************************************************************************)
(* C17: failures of the pipeline                                           *)
(***************************************************************************)
\* the failing steps the claim lists: circuit loading, note reconstruction,
\* commitment lookup, witness evaluation, proving, signed-amount decoding
PipelineFailures ==
    {"circuit", "reconstruct", "commitment", "lookup", "inputs", "witness",
     "proving", "decode"}

\* C17: when circuit loading, note reconstruction, commitment lookup, witness
\* evaluation, proving or signed-amount decoding fails during cmd_deposit or
\* cmd_withdraw, the command returns the error, submits no transaction and
\* leaves the note store unchanged.
C17_FailuresReported ==
    [][(cmd'.name \in {"deposit", "withdraw"} /\ cmd'.failed \in PipelineFailures)
          => /\ cmd'.result = "err"
             /\ cmd'.built = <<>> /\ cmd'.sent = <<>>
             /\ chain' = chain
             /\ store' = store]_vars

\* a withdrawal of a note whose commitment is on no chain has failed at the
\* lookup, with a confirmed deposit on the chain and its note in the store
C17_Witness ==
    /\ cmd.name = "withdraw"
    /\ cmd.failed = "lookup"
    /\ cmd.result = "err"
    /\ Len(chain) = 1
    /\ \E i \in 1..Len(store) : store[i].status = "deposited" /\ store[i].deposit_tx_sig = 1

(***************************************************************************)
(* C18: what insert and insert_many leave behind                           *)
(***************************************************************************)
\* the tree after inserting the elements of ls one call at a time
RECURSIVE InsertEach(_, _)
InsertEach(t, ls) ==
    IF ls = <<>> THEN t ELSE InsertEach(insert(t, Head(ls)), Tail(ls))

\* layers[0] is the leaf sequence and every level is the pairwise hash of
\* the level below, padded with that level's zero hash; an empty level is
\* followed by the single node zeros[k + 1]
LevelsWellFormed(t) ==
    /\ Len(t.layers) = t.height + 1
    /\ At(t.layers, 0) = t.leaves
    /\ \A k \in 0..(t.height - 1) :
          LET cur == At(t.layers, k)
              nxt == At(t.layers, k + 1)
          IN  IF Len(cur) = 0 THEN nxt = <<At(t.zeros, k + 1)>>
              ELSE /\ Len(nxt) = (Len(cur) + 1) \div 2
                   /\ \A i \in 0..(Len(nxt) - 1) :
                         At(nxt, i) =
                            hash2(At(cur, 2 * i),
                                  IF 2 * i + 1 < Len(cur) THEN At(cur, 2 * i + 1)
                                  ELSE At(t.zeros, k))

\* the leaves a step added behind the ones the tree already had
Added == SubSeq(tree'.leaves, Len(tree.leaves) + 1, Len(tree'.leaves))

\* a step of insert or insert_many: both reset the recorded get_path call
InsertStep == path' = NoPath

\* the old leaves are untouched and the levels are rebuilt from the leaves
AppendsAndRebuilds ==
    /\ Len(tree'.leaves) >= Len(tree.leaves)
    /\ SubSeq(tree'.leaves, 1, Len(tree.leaves)) = tree.leaves
    /\ tree'.height = tree.height /\ tree'.zeros = tree.zeros
    /\ LevelsWellFormed(tree')

Bit(n, k) == (n \div Pow2(k)) % 2

\* the number whose binary digits, least significant first, are bits
RECURSIVE FromBitsLsbFirst(_)
FromBitsLsbFirst(bits) ==
    IF bits = <<>> THEN 0 ELSE Head(bits) + 2 * FromBitsLsbFirst(Tail(bits))

\* C19: on a tree with at least one leaf every get_path call returns H
\* entries; the direction bit of level k is bit k of leafIndex and the
\* sibling is the node at position (leafIndex div 2^k) XOR 1 of level k
\* when the level has that position, else zeros[k]. With two leaves
\* get_path(0) is the second leaf followed by zeros[1..H-1]. For
\* leafIndex < 2^H the integer prove_withdraw passes as inPathIndices[0]
\* is the number the returned bits spell, least significant first.
C19_PathEntries ==
    (path.leaf_index >= 0 /\ leaf_count(tree) >= 1) =>
        LET i == path.leaf_index
            r == path.result
        IN  /\ r.ok
            /\ Len(r.path_elements) = tree.height
            /\ Len(r.path_indices) = tree.height
            /\ \A k \in 0..(tree.height - 1) :
                  LET pos == Xor1(i \div Pow2(k))
                      layer == At(tree.layers, k)
                  IN  /\ At(r.path_indices, k) = Bit(i, k)
                      /\ At(r.path_elements, k) =
                            IF pos < Len(layer) THEN At(layer, pos)
                            ELSE At(tree.zeros, k)
            /\ (leaf_count(tree) = 2 /\ i = 0) =>
                  r.path_elements =
                     [k \in 1..tree.height |->
                        IF k = 1 THEN tree.leaves[2] ELSE At(tree.zeros, k - 1)]
            /\ i < Pow2(tree.height) =>
                  WithdrawPathIndices(i)[1] =
                     BigInt_from(FromBitsLsbFirst(r.path_indices))

\* the path of the third of three leaves in a tree of height 2: a left
\* child with no live sibling at level 0, a right child with a live sibling
\* at level 1
C19_Witness ==
    /\ tree.height = 2 /\ leaf_count(tree) = 3
    /\ path.leaf_index = 2
    /\ path.result.ok
    /\ path.result.path_indices = <<0, 1>>
    /\ path.result.path_elements =
          <<At(tree.zeros, 0), hash2(tree.leaves[1], tree.leaves[2])>>
    /\ hash2(tree.leaves[1], tree.leaves[2]) # At(tree.zeros, 1)

(***************************************************************************)
(* C20: the shape of a deposit witness                                     *)
(***************************************************************************)
\* the deposit witnesses of the last command
DepositWitnesses == {w \in Witnesses : w.kind = "deposit"}

\* the commitment of a note of the SOL mint, from the entries of a witness
CommitmentOf(amount, pubkey, blinding) == Hash4(Fr(amount), pubkey, blinding, Fr(1))

\* the nullifier at leaf index 0 of the zero-amount note with a private key
\* and a blinding
DummyNullifier(privkey, blinding) ==
    LET commitment == CommitmentOf(0, hash1(privkey), blinding)
        signature == Hash3(privkey, commitment, Fr(0))
    IN  Hash3(commitment, Fr(0), signature)

\* C20: in every deposit witness publicAmount is the amount; both inputs
\* have amount 0, path index 0, an all-zero path of H elements each, and a
\* published nullifier that is the nullifier at leaf index 0 of the
\* zero-amount note of their inPrivateKey and inBlinding; output 1 has the
\* amount and the commitment of the utxo passed in, which is the commitment
\* of the note the command records; output 2 is a zero-amount note.
C20_DepositWitness ==
    \A w \in DepositWitnesses :
        LET in == w.inputs
        IN  /\ in.publicAmount = <<BigInt_from(w.amount)>>
            /\ in.inAmount = <<BigInt_from(0), BigInt_from(0)>>
            /\ in.inPathIndices = <<BigInt_from(0), BigInt_from(0)>>
            /\ Len(in.inPathElements) = 2 * MERKLE_TREE_HEIGHT
            /\ \A k \in 1..Len(in.inPathElements) :
                  in.inPathElements[k] = BigInt_from(0)
            /\ \A j \in 1..2 :
                  in.inputNullifier[j]
                     = DummyNullifier(in.inPrivateKey[j], in.inBlinding[j])
            /\ in.outAmount = <<BigInt_from(w.amount), BigInt_from(0)>>
            /\ w.utxo.amount = w.amount
            /\ str_to_bigint(w.utxo.commitment) = [ok |-> TRUE, value |-> in.outputCommitment[1]]
            /\ \A j \in 1..2 :
                  in.outputCommitment[j]
                     = CommitmentOf(IntOf(in.outAmount[j]), in.outPubkey[j],
                                    in.outBlinding[j])
            /\ (cmd.name = "deposit" /\ cmd.sent # <<>> /\ cmd.failed = "none") =>
                  /\ store # <<>>
                  /\ store[Len(store)].commitment = w.utxo.commitment
                  /\ store[Len(store)].amount = w.amount

\* a deposit of a positive amount went through: its witness has two dummy
\* inputs with different keys, the real note as output 1, and the note is in
\* the store
C20_Witness ==
    /\ cmd.name = "deposit" /\ cmd.result = "ok" /\ cmd.sent # <<>>
    /\ Len(cmd.witnesses) = 1
    /\ cmd.witnesses[1].kind = "deposit"
    /\ cmd.witnesses[1].amount > 0
    /\ cmd.witnesses[1].inputs.inPrivateKey[1] # cmd.witnesses[1].inputs.inPrivateKey[2]
    /\ cmd.witnesses[1].inputs.inputNullifier[1] # cmd.witnesses[1].inputs.inputNullifier[2]
    /\ cmd.witnesses[1].inputs.outputCommitment[1] # cmd.witnesses[1].inputs.outputCommitment[2]
    /\ store # <<>>
    /\ str_to_bigint(store[Len(store)].commitment).value
          = cmd.witnesses[1].inputs.outputCommitment[1]

(***************************************************************************)
(* C21: the shape of a withdrawal witness                                  *)
(***************************************************************************)
\* the withdrawal witnesses of the last command
WithdrawWitnesses == {w \in Witnesses : w.kind = "withdraw"}

\* the nullifier of a commitment at a leaf index, signed with a private key
NullifierOf(privkey, commitment, leaf_index) ==
    Hash3(commitment, Fr(leaf_index), Hash3(privkey, commitment, Fr(leaf_index)))

\* C21: in every withdrawal witness input 1 is the real note: its amount,
\* its nullifier at leafIndex, leafIndex as path index, the H siblings of
\* tree.get_path(leafIndex), and root = tree.root(); input 2 is a
\* zero-amount note of the same private and public key with its own
\* blinding, with its nullifier at index 0, path index 0 and H zeros as
\* path; both outputs have amount 0, the owner's public key and the
\* commitment Hash4(0, pubkey, blinding, mint) of their blinding.
C21_WithdrawWitness ==
    \A w \in WithdrawWitnesses :
        LET in == w.inputs
            H == MERKLE_TREE_HEIGHT
            privkey == str_to_fr(w.utxo.privkey).value
            pubkey == str_to_fr(w.utxo.pubkey).value
            commitment == str_to_fr(w.utxo.commitment).value
            p == get_path(w.tree, w.leaf_index)
        IN  /\ in.root = <<BigInt_of(root(w.tree))>>
            /\ in.inAmount = <<BigInt_from(w.utxo.amount), BigInt_from(0)>>
            /\ in.inPathIndices = <<BigInt_from(w.leaf_index), BigInt_from(0)>>
            /\ p.ok /\ Len(p.path_elements) = H
            /\ Len(in.inPathElements) = 2 * H
            /\ \A k \in 1..H :
                  /\ in.inPathElements[k] = BigInt_of(p.path_elements[k])
                  /\ in.inPathElements[H + k] = BigInt_from(0)
            /\ SignalOf(in.inputNullifier[1])
                  = NullifierOf(privkey, commitment, w.leaf_index)
            /\ in.inPrivateKey[1] = str_to_bigint(w.utxo.privkey).value
            /\ in.inPrivateKey[2] = in.inPrivateKey[1]
            /\ in.inBlinding[1] = str_to_bigint(w.utxo.blinding).value
            /\ SignalOf(in.inputNullifier[2])
                  = NullifierOf(privkey,
                                Hash4(Fr(0), pubkey, SignalOf(in.inBlinding[2]), Fr(1)),
                                0)
            /\ in.outAmount = <<BigInt_from(0), BigInt_from(0)>>
            /\ \A j \in 1..2 :
                  /\ in.outPubkey[j] = str_to_bigint(w.utxo.pubkey).value
                  /\ SignalOf(in.outputCommitment[j])
                        = Hash4(Fr(0), pubkey, SignalOf(in.outBlinding[j]), Fr(1))

\* a withdrawal of the note of the second deposit: the note sits at leaf 2,
\* its path has a live sibling at level 1, and the three blindings of the
\* dummy input and the outputs differ
C21_Witness ==
    /\ cmd.name = "withdraw"
    /\ Len(cmd.witnesses) = 1
    /\ cmd.witnesses[1].kind = "withdraw"
    /\ cmd.witnesses[1].leaf_index = 2
    /\ leaf_count(cmd.witnesses[1].tree) = 4
    /\ cmd.witnesses[1].utxo.amount > 0
    /\ cmd.witnesses[1].inputs.inPathIndices = <<BigInt_from(2), BigInt_from(0)>>
    /\ cmd.witnesses[1].inputs.inPathElements[2] # BigInt_from(0)
    /\ cmd.witnesses[1].inputs.inBlinding[2] # cmd.witnesses[1].inputs.outBlinding[1]
    /\ cmd.witnesses[1].inputs.outBlinding[1] # cmd.witnesses[1].inputs.outBlinding[2]

(***************************************************************************)
(* C22: the public amount of a withdrawal                                  *)
(***************************************************************************)
\* C22: in every withdrawal witness publicAmount is (r - amount) mod r for
\* the amount of the note, a canonical field value in [0, r).
C22_PublicAmountCanonical ==
    \A w \in WithdrawWitnesses :
        /\ w.inputs.publicAmount
              = <<BigInt_from((FIELD_SIZE - w.utxo.amount) % FIELD_SIZE)>>
        /\ IntOf(w.inputs.publicAmount[1]) >= 0
        /\ IntOf(w.inputs.publicAmount[1]) < FIELD_SIZE

(***************************************************************************)
(* C23: when the decoding of the public amount fails                       *)
(***************************************************************************)
\* the signed value of the public amount of a witness
SignedAmount(w) ==
    LET v == IntOf(SignalOf(w.inputs.publicAmount[1]))
    IN  IF v > FIELD_SIZE \div 2 THEN v - FIELD_SIZE ELSE v

FitsI64(n) == n >= I64Min /\ n <= I64Max

\* C23 as stated: no deposit or withdrawal of an amount a note can hold
\* fails at the decoding of the public amount.
C23_NoDecodeFailure == cmd.failed # "decode"

\* C23 amended: a command whose proof was generated fails at the decode step
\* exactly when the signed value of the public amount of its last witness
\* does not fit i64; the witnesses before the last decoded. So a deposit of
\* at most i64::MAX and a withdrawal of at most 2^63 do not fail there.
C23_DecodeFailsOutsideI64 ==
    \A i \in 1..Len(cmd.witnesses) :
        LET w == cmd.witnesses[i]
        IN  /\ w.amount <= U64Max
            /\ IF i < Len(cmd.witnesses) THEN FitsI64(SignedAmount(w))
               ELSE cmd.failed \notin {"witness", "proving"} =>
                       (cmd.failed = "decode" <=> ~FitsI64(SignedAmount(w)))
            /\ (w.kind = "deposit" /\ w.amount <= I64Max) => FitsI64(SignedAmount(w))
            /\ (w.kind = "withdraw" /\ w.amount <= -I64Min) => FitsI64(SignedAmount(w))

\* a deposit of i64::MAX + 1 has failed at the decode step, after a deposit
\* of a smaller amount went through
C23_Witness ==
    /\ cmd.name = "deposit" /\ cmd.failed = "decode" /\ cmd.result = "err"
    /\ Len(cmd.witnesses) = 1
    /\ cmd.witnesses[1].amount = I64Max + 1
    /\ SignedAmount(cmd.witnesses[1]) = I64Max + 1
    /\ Len(chain) = 1

(***************************************************************************)
(* C24: the layout of the instruction payload                              *)
(***************************************************************************)
\* the integer of a two's complement little-endian byte string
RECURSIVE FromLeSigned(_)
FromLeSigned(bs) ==
    IF Len(bs) = 1 THEN (IF bs[1] >= 128 THEN bs[1] - 256 ELSE bs[1])
    ELSE Head(bs) + 256 * FromLeSigned(Tail(bs))

\* the part of the payload that starts at a byte offset and has a length:
\* its big-endian integer, or the hash output it is the bytes of
PartAt(data, offset, len) ==
    LET k == CHOOSE k \in 1..Len(data) :
                 DataLen(SubSeq(data, 1, k - 1)) = offset
    IN  IF ByteLen(data[k]) < len THEN <<>>
        ELSE IF data[k].num # <<>> THEN data[k].num
        ELSE Fr(FromBe256(SubSeq(data[k].bytes, 1, len), 0))

\* the big-endian integers of the 32-byte words of the payload that start at
\* a byte offset, count of them, all inside one part of the payload
WordsAt(data, offset, count) ==
    LET k == CHOOSE k \in 1..Len(data) :
                 /\ DataLen(SubSeq(data, 1, k - 1)) <= offset
                 /\ offset < DataLen(SubSeq(data, 1, k))
        skip == offset - DataLen(SubSeq(data, 1, k - 1))
    IN  [i \in 1..count |->
            FromBe256(SubSeq(data[k].bytes, skip + FrBytes * (i - 1) + 1,
                             skip + FrBytes * i), 0)]

\* C24: the payload is discriminator || proof_a || proof_b || proof_c || root
\* || nullifier1 || nullifier2 || commitment1 || commitment2 || publicAmount
\* || extDataHash, where root, publicAmount, extDataHash, nullifier1,
\* nullifier2, commitment1, commitment2 are public signals 0 to 6, proof_a is
\* x || (p - y) mod p, proof_b is x.c1 || x.c0 || y.c1 || y.c0 and proof_c is
\* x || y, not negated.
C24_PayloadLayout ==
    wire.called /\ wire.ok =>
        LET pi == proof.coords
            sig == proof.public_signals
            d == wire.data
        IN  /\ d[1].bytes = TRANSACT_DISCRIMINATOR
            /\ WordsAt(d, 8, 2) = <<pi.a_x, (BN254_FIELD_MODULUS - pi.a_y) % BN254_FIELD_MODULUS>>
            /\ WordsAt(d, 72, 4) = <<pi.b_x1, pi.b_x0, pi.b_y1, pi.b_y0>>
            /\ WordsAt(d, 200, 2) = <<pi.c_x, pi.c_y>>
            /\ PartAt(d, 264, FrBytes) = At(sig, 0)
            /\ PartAt(d, 296, FrBytes) = At(sig, 3)
            /\ PartAt(d, 328, FrBytes) = At(sig, 4)
            /\ PartAt(d, 360, FrBytes) = At(sig, 5)
            /\ PartAt(d, 392, FrBytes) = At(sig, 6)
            /\ FromLeSigned(d[10].bytes) = public_signal_to_i64(At(sig, 1)).value
            /\ DataLen(SubSeq(d, 1, 9)) = 424 /\ ByteLen(d[10]) = I64Bytes
            /\ PartAt(d, 432, FrBytes) = At(sig, 2)
            /\ DataLen(d) = 464

\* a payload of a withdrawal whose proof has pairwise different coordinates
\* in each point and whose two nullifiers and two commitments differ
C24_Witness ==
    /\ wire.called /\ wire.ok
    /\ proof.coords.a_x = 0 /\ proof.coords.a_y = 1
    /\ proof.coords.b_x0 # proof.coords.b_x1 /\ proof.coords.b_y0 # proof.coords.b_y1
    /\ proof.coords.c_x # proof.coords.c_y
    /\ At(proof.public_signals, 3) # At(proof.public_signals, 4)
    /\ At(proof.public_signals, 5) # At(proof.public_signals, 6)
    /\ At(proof.public_signals, 1) = Fr(FIELD_SIZE - 1)
    /\ FromLeSigned(wire.data[10].bytes) = -1
    /\ WordsAt(wire.data, 8, 2) = <<0, BN254_FIELD_MODULUS - 1>>

(***************************************************************************)
(* Specification of the relayer serving concurrent requests, next to the   *)
(* commands of a user of the pool (relayer main.rs: relay_withdraw is an    *)
(* async handler, one task per request; its RPC calls are the points where *)
(* the tasks interleave)                                                   *)
(***************************************************************************)
\* requests in flight at the same time
MaxRequests == 2

Handlers == 1..MaxRequests

\* the requests served: two that spend different notes, one that names the
\* same nullifier twice, one that does not parse, one whose seed is too long
ServeRequests ==
    {[instruction_data |-> <<"A", "A", "A", "A">>, nullifier1 |-> n1,
      nullifier2 |-> n2, recipient |-> Pubkey_to_string(Addr(3, 0))] :
        n1 \in {<<"0", "0">>, <<"0", "a">>}, n2 \in {<<"0", "0">>, <<"0", "b">>}}
    \cup {[instruction_data |-> <<"A">>, nullifier1 |-> <<"0", "0">>,
           nullifier2 |-> <<"0", "a">>, recipient |-> Pubkey_to_string(Addr(3, 0))],
          [instruction_data |-> <<"A", "A", "A", "A">>,
           nullifier1 |-> [i \in 1..(2 * MAX_SEED_LEN + 2) |-> "0"],
           nullifier2 |-> <<"0", "a">>, recipient |-> Pubkey_to_string(Addr(3, 0))]}

\* relay_withdraw up to the instruction: the inputs are parsed and the marker
\* addresses derived
parse_request(req) ==
    LET invalid == FirstInvalid(req)
        hd == [NoHandler EXCEPT !.request = req]
    IN  IF invalid # "none"
        THEN [hd EXCEPT !.pc = "reply", !.failed = "parse", !.response = Failure(invalid)]
        ELSE IF Len(hex_decode(req.nullifier1).value) > MAX_SEED_LEN
                \/ Len(hex_decode(req.nullifier2).value) > MAX_SEED_LEN
        THEN [hd EXCEPT !.pc = "panic"]
        ELSE [hd EXCEPT !.pc = "blockhash"]

\* relay_withdraw, get_latest_blockhash: a failure is the response
get_latest_blockhash(hd, fail) ==
    IF fail
    THEN [hd EXCEPT !.pc = "reply", !.failed = "blockhash",
                    !.response = Failure("Failed to get blockhash")]
    ELSE [hd EXCEPT !.pc = "send"]

\* mutant of send_and_confirm_transaction: a failed submission is repeated
send_and_confirm_transaction_Retry(ch, hd, relayer_keypair, fail) ==
    LET tx == RelayTransaction(relayer_keypair, hd.request)
    IN  IF fail \/ ~ChainAccepts(ch, tx)
        THEN [chain |-> ch,
              handler |-> [hd EXCEPT !.pc = "reply", !.failed = "send",
                                     !.response = Failure("Transaction failed"),
                                     !.submitted = hd.submitted \o <<tx, tx>>]]
        ELSE [chain |-> Append(ch, tx),
              handler |-> [hd EXCEPT !.pc = "reply",
                                     !.response = [success |-> TRUE,
                                                   signature |-> <<Len(ch) + 1>>,
                                                   error |-> <<>>],
                                     !.submitted = Append(hd.submitted, tx)]]

\* relay_withdraw, the transaction signed and send_and_confirm_transaction:
\* one submission, whose outcome is the response
send_and_confirm_transaction(ch, hd, relayer_keypair, fail) ==
    LET tx == RelayTransaction(relayer_keypair, hd.request)
    IN  IF fail \/ ~ChainAccepts(ch, tx)
        THEN [chain |-> ch,
              handler |-> [hd EXCEPT !.pc = "reply", !.failed = "send",
                                     !.response = Failure("Transaction failed"),
                                     !.submitted = Append(hd.submitted, tx)]]
        ELSE [chain |-> Append(ch, tx),
              handler |-> [hd EXCEPT !.pc = "reply",
                                     !.response = [success |-> TRUE,
                                                   signature |-> <<Len(ch) + 1>>,
                                                   error |-> <<>>],
                                     !.submitted = Append(hd.submitted, tx)]]

InitServe ==
    /\ IdleCli
    /\ relay = NoRelay
    /\ handlers = [h \in Handlers |-> NoHandler]
    /\ IdleTree /\ IdleUtxo /\ IdleCodec /\ IdleAmount /\ IdleWire

\* a request arrives and is parsed
Accept(h) ==
    /\ handlers[h].pc = "idle"
    /\ \E req \in ServeRequests :
          handlers' = [handlers EXCEPT ![h] = parse_request(req)]
    /\ UNCHANGED <<chain, store, cmd, relay>>
    /\ UNCHANGED <<treeVars, utxoVars, codecVars, amountVars, wireVars, fileVars>>

GetLatestBlockhash(h) ==
    /\ handlers[h].pc = "blockhash"
    /\ \E fail \in BOOLEAN :
          handlers' = [handlers EXCEPT ![h] = get_latest_blockhash(handlers[h], fail)]
    /\ UNCHANGED <<chain, store, cmd, relay>>
    /\ UNCHANGED <<treeVars, utxoVars, codecVars, amountVars, wireVars, fileVars>>

SendAndConfirm(h) ==
    /\ handlers[h].pc = "send"
    /\ Len(chain) < MaxTx
    /\ \E fail \in BOOLEAN :
          \E r \in {send_and_confirm_transaction(chain, handlers[h],
                                                 RelayerKeypair, fail)} :
             chain' = r.chain /\ handlers' = [handlers EXCEPT ![h] = r.handler]
    /\ UNCHANGED <<store, cmd, relay>>
    /\ UNCHANGED <<treeVars, utxoVars, codecVars, amountVars, wireVars, fileVars>>

\* the response is returned (or the task has panicked): the request is over
Reply(h) ==
    /\ handlers[h].pc \in {"reply", "panic"}
    /\ handlers' = [handlers EXCEPT ![h] = NoHandler]
    /\ UNCHANGED <<chain, store, cmd, relay>>
    /\ UNCHANGED <<treeVars, utxoVars, codecVars, amountVars, wireVars, fileVars>>

\* the RPC call of a command that fails, if any
RpcFailures == {"none", "blockhash", "send"}

\* the deposit of another user of the pool, proved against the chain: its
\* confirmed transaction
OtherDeposit(ch) ==
    cmd_deposit(ch, <<>>,
                [keypair |-> Addr(2, 0), amount |-> 1, skip_confirm |-> TRUE,
                 confirm |-> TRUE, fail |-> "none",
                 rnd |-> [k0 |-> Fr(2), b0 |-> Fr(1), k1 |-> Fr(4), b1 |-> Fr(3),
                          k2 |-> Fr(6), b2 |-> Fr(5), k3 |-> Fr(8), b3 |-> Fr(7)],
                 proof |-> CliProof, others |-> <<>>]).cmd.built

\* privacy deposit --amount 1 --yes, run by a user of the pool while the
\* transactions others of other users are confirmed
DepositAmid(others) ==
    /\ cmd = NoCmd
    /\ Len(chain) + Len(others) < MaxTx
    /\ \E fail \in RpcFailures :
          \E r \in {cmd_deposit(chain, store,
                                 [keypair |-> Addr(1, 0), amount |-> 1,
                                  skip_confirm |-> TRUE, confirm |-> TRUE,
                                  fail |-> fail,
                                  rnd |-> [k0 |-> Fr(1), b0 |-> Fr(2), k1 |-> Fr(3),
                                           b1 |-> Fr(4), k2 |-> Fr(5), b2 |-> Fr(6),
                                           k3 |-> Fr(7), b3 |-> Fr(8)],
                                  proof |-> CliProof, others |-> others])} :
             chain' = r.chain /\ store' = r.store /\ cmd' = r.cmd
    /\ UNCHANGED <<treeVars, utxoVars, codecVars, amountVars, wireVars, relayVars, fileVars>>

\* the deposit of the user when no other user transacts meanwhile
UserDeposit == DepositAmid(<<>>)

\* the deposit of the user, with or without the deposit of another user
\* confirmed between its read of the tree account and its own confirmation
RacingDeposit == \E others \in {<<>>, OtherDeposit(chain)} : DepositAmid(others)

\* privacy withdraw --recipient <address> --yes, of the latest note or of a
\* stored note named by its id
UserWithdraw ==
    /\ cmd = NoCmd
    /\ \E fail \in RpcFailures, note_id \in {0} \cup {store[i].id : i \in 1..Len(store)} :
          \E r \in {cmd_withdraw(chain, store,
                                  [keypair |-> Addr(1, 0),
                                   recipient |-> Pubkey_to_string(Addr(3, 0)),
                                   note_id |-> note_id, skip_confirm |-> TRUE,
                                   confirm |-> TRUE, selection |-> 0,
                                   fail |-> fail, skipped |-> {},
                                   rnd |-> [dummy_blinding |-> Fr(1),
                                            out_blinding1 |-> Fr(2),
                                            out_blinding2 |-> Fr(3)],
                                   proof |-> CliProof])} :
             Len(r.chain) <= MaxTx /\ chain' = r.chain /\ store' = r.store /\ cmd' = r.cmd
    /\ UNCHANGED <<treeVars, utxoVars, codecVars, amountVars, wireVars, relayVars, fileVars>>

NextServe ==
    \/ \E h \in Handlers : Accept(h)
    \/ \E h \in Handlers : GetLatestBlockhash(h)
    \/ \E h \in Handlers : SendAndConfirm(h)
    \/ \E h \in Handlers : Reply(h)
    \/ UserDeposit
    \/ UserWithdraw
    \/ Exit

SpecServe == InitServe /\ [][NextServe]_vars

(***************************************************************************)
(* C25: no operation is retried                                            *)
(***************************************************************************)
\* what holds of a request of the relayer at every moment
OneSubmission(hd) ==
    /\ Len(hd.submitted) <= 1
    /\ hd.pc \in {"idle", "blockhash", "send", "panic"} => hd.submitted = <<>>
    /\ hd.failed \in {"parse", "blockhash"} =>
          /\ hd.submitted = <<>>
          /\ ~hd.response.success
    /\ hd.failed = "blockhash" => hd.response = Failure("Failed to get blockhash")
    /\ hd.failed = "send" =>
          /\ Len(hd.submitted) = 1
          /\ hd.response = Failure("Transaction failed")
    /\ hd.response.success =>
          /\ Len(hd.submitted) = 1
          /\ chain[hd.response.signature[1]] = hd.submitted[1]

\* what holds of a deposit or withdraw command when it ends
OneTransaction ==
    cmd.name \in {"deposit", "withdraw"} =>
        /\ Len(cmd.built) <= 1 /\ Len(cmd.sent) <= Len(cmd.built)
        /\ cmd.failed = "blockhash" => cmd.built = <<>> /\ cmd.result = "err"
        /\ cmd.failed = "send" =>
              Len(cmd.built) = 1 /\ cmd.sent = <<>> /\ cmd.result = "err"

\* a step submits at most one transaction, and a failed RPC call changes
\* nothing on the chain
OneStep ==
    /\ Len(chain') <= Len(chain) + 1
    /\ \A h \in Handlers :
          /\ handlers'[h].submitted # handlers[h].submitted =>
                \/ handlers[h].pc = "send"
                      /\ Len(handlers'[h].submitted) = Len(handlers[h].submitted) + 1
                \/ handlers'[h] = NoHandler
          /\ handlers'[h].failed # "none" /\ handlers[h].failed = "none" =>
                chain' = chain
    /\ cmd = NoCmd /\ cmd'.failed \in {"blockhash", "send"} => chain' = chain

\* C25: nothing is retried: while requests of the relayer interleave in any
\* order with each other and with the commands of a user, each request
\* submits at most one transaction and each deposit or withdraw command
\* submits at most one; a failed blockhash fetch submits nothing and a failed
\* submission is not repeated, both being returned as a failure
\* (success = false for the relayer).
C25_NoRetry ==
    /\ [](OneTransaction /\ \A h \in Handlers : OneSubmission(handlers[h]))
    /\ [][OneStep]_vars

\* a request whose submission failed waits to reply while another request
\* was confirmed, and a deposit has ended at its failed blockhash fetch
C25_Witness ==
    /\ handlers[1].failed = "send" /\ Len(handlers[1].submitted) = 1
    /\ handlers[2].response.success
    /\ handlers[1].request # handlers[2].request
    /\ cmd.name = "deposit" /\ cmd.failed = "blockhash"
    /\ Len(chain) = 2

(***************************************************************************)
(* Specification of the note store: deposits and withdrawals of a user     *)
(* with the notes commands (main.rs: cmd_notes; notes.rs: NoteStore)       *)
(***************************************************************************)
\* a note of a file that is no note of a deposit of this store
FileNote(id, commitment, status) ==
    [id |-> id, amount |-> 1, privkey |-> Text(<<"1">>), pubkey |-> Text(<<"1">>),
     blinding |-> Text(<<"1">>), commitment |-> Text(commitment),
     leaf_index |-> 0, status |-> status, deposit_tx_sig |-> 0,
     withdraw_tx_sig |-> 0]

\* the files a user imports: the exported file if there is one, a file that
\* holds one commitment twice, and a file that does not exist
NotesFiles ==
    {exported,
     export(<<FileNote(101, <<"5">>, "deposited"), FileNote(102, <<"5">>, "withdrawn")>>),
     NoFile}

\* the outcome of an import: the file read, the store it was read into and
\* the count printed
ImportCmd(result, file, before, count) ==
    [name |-> "import", keypair |-> <<>>, recipient |-> <<>>, failed |-> "none",
     result |-> result, built |-> <<>>, sent |-> <<>>, witnesses |-> <<>>,
     file |-> file, before |-> before, count |-> count]

InitNotes ==
    /\ IdleCli
    /\ IdleTree /\ IdleUtxo /\ IdleCodec /\ IdleAmount /\ IdleWire /\ IdleRelay

\* cmd_notes, NotesAction::Export
NotesExport ==
    /\ cmd = NoCmd
    /\ exported' = export(store)
    /\ cmd' = [NoCmd EXCEPT !.name = "export", !.result = "ok"]
    /\ UNCHANGED <<chain, store>>
    /\ UNCHANGED <<treeVars, utxoVars, codecVars, amountVars, wireVars, relayVars>>

\* cmd_notes, NotesAction::Import: the count printed is the number of notes
\* pushed; a file that cannot be read is an error
NotesImport ==
    /\ cmd = NoCmd
    /\ \E file \in NotesFiles :
          IF ~file.exists
          THEN /\ store' = store
               /\ cmd' = ImportCmd("err", file, store, 0)
          ELSE /\ store' = import(store, {store[i].commitment : i \in 1..Len(store)},
                                  file.notes)
               /\ cmd' = ImportCmd("ok", file, store,
                                   import_count({store[i].commitment : i \in 1..Len(store)},
                                                file.notes))
    /\ UNCHANGED <<chain, exported>>
    /\ UNCHANGED <<treeVars, utxoVars, codecVars, amountVars, wireVars, relayVars>>

\* cmd_notes, NotesAction::Delete
NotesDelete ==
    /\ cmd = NoCmd
    /\ \E id \in {99} \cup {store[i].id : i \in 1..Len(store)} :
          /\ store' = delete(store, id)
          /\ cmd' = [NoCmd EXCEPT !.name = "delete",
                                  !.result = IF Len(store') < Len(store)
                                             THEN "ok" ELSE "not_found"]
    /\ UNCHANGED <<chain, exported>>
    /\ UNCHANGED <<treeVars, utxoVars, codecVars, amountVars, wireVars, relayVars>>

NextNotes ==
    RacingDeposit \/ UserWithdraw \/ NotesExport \/ NotesImport \/ NotesDelete \/ Exit

SpecNotes == InitNotes /\ [][NextNotes]_vars

(***************************************************************************)
(* C26: the lifecycle of a note                                            *)
(***************************************************************************)
\* the withdrawal of the note is confirmed on the chain: a transaction
\* publishes the nullifier of the note at the position of its commitment
SpentOnChain(n) ==
    LET utxo == from_values(n.amount, n.privkey, n.pubkey, n.blinding)
        c == str_to_fr(n.commitment)
        leaves == fetch_commitments_from_chain(chain, {}, 1)
    IN  /\ utxo.ok /\ c.ok
        /\ Position(leaves, c.value).found
        /\ \E i \in 1..Len(chain) :
              chain[i].data[6]
                 = fr_to_be_bytes(compute_nullifier(utxo.utxo,
                                     Position(leaves, c.value).index).value)

\* C26: the status of a note goes from deposited to withdrawn and never back:
\* cmd_withdraw selects only a note whose status is "deposited", a successful
\* withdrawal sets the status to "withdrawn" with its signature, and after
\* that no sequence of deposit, withdraw, transfer and notes export, import
\* and delete leaves a stored note with the commitment and the status
\* "deposited".
C26_NeverDepositedAgain ==
    /\ cmd.name = "withdraw" /\ cmd.result = "ok" /\ cmd.sent # <<>> =>
          \E i \in 1..Len(store) :
              /\ store[i].status = "withdrawn"
              /\ store[i].withdraw_tx_sig = cmd.sent[1]
              /\ SpentOnChain(store[i])
    /\ \A i \in 1..Len(store) :
          store[i].status = "deposited" => ~SpentOnChain(store[i])

(***************************************************************************)
(* C27: the note of a confirmed deposit                                    *)
(***************************************************************************)
\* the stored notes of the deposit the command has made
NotesOfDeposit ==
    {i \in 1..Len(store) :
        /\ store[i].status = "deposited"
        /\ store[i].deposit_tx_sig = cmd.sent[1]
        /\ store[i].privkey = cmd.witnesses[1].utxo.privkey
        /\ store[i].blinding = cmd.witnesses[1].utxo.blinding
        /\ store[i].commitment = cmd.witnesses[1].utxo.commitment}

\* C27: when the transaction of cmd_deposit is confirmed, the note with the
\* private key, blinding and commitment of the deposit is in the note store
\* with status "deposited" and the signature when the command ends; and a
\* note is in the store with a deposit signature only if that transaction is
\* confirmed and carries its commitment.
C27_ConfirmedDepositIsStored ==
    /\ cmd.name = "deposit" /\ cmd.sent # <<>> => NotesOfDeposit # {}
    /\ \A i \in 1..Len(store) :
          store[i].deposit_tx_sig # 0 =>
              /\ store[i].deposit_tx_sig \in 1..Len(chain)
              /\ chain[store[i].deposit_tx_sig].data[8]
                    = fr_to_be_bytes(str_to_fr(store[i].commitment).value)

(***************************************************************************)
(* C28: the leaf index of the note of a deposit                            *)
(***************************************************************************)
\* the position cmd_withdraw finds for a commitment among the leaves it
\* rebuilds from the chain
PositionOnChain(commitment) ==
    Position(fetch_commitments_from_chain(chain, {}, 1), str_to_fr(commitment).value)

\* C28: the leaf_index cmd_deposit records in the note is the position of the
\* commitment of the note in the leaf sequence of the chain, the one
\* cmd_withdraw finds by rebuilding the tree, for every interleaving of the
\* deposit with transactions of other users of the pool.
C28_LeafIndexIsPosition ==
    \A i \in 1..Len(store) :
        store[i].deposit_tx_sig # 0 =>
            /\ PositionOnChain(store[i].commitment).found
            /\ store[i].leaf_index = PositionOnChain(store[i].commitment).index

(***************************************************************************)
(* C29: the import of notes                                                *)
(***************************************************************************)
Commitments(st) == {st[i].commitment : i \in 1..Len(st)}

\* no two notes of the store share a commitment
UniqueCommitments(st) ==
    \A i, j \in 1..Len(st) : st[i].commitment = st[j].commitment => i = j

\* C29: NoteStore::import keeps commitments unique: from a store in which no
\* two notes share a commitment, after the import of any file no two stored
\* notes share a commitment, every note held before is unchanged, the count
\* returned is the number of notes added, and importing the same file again
\* adds nothing and returns 0.
C29_ImportKeepsUnique ==
    cmd.name = "import" /\ cmd.result = "ok" /\ UniqueCommitments(cmd.before) =>
        /\ UniqueCommitments(store)
        /\ SubSeq(store, 1, Len(cmd.before)) = cmd.before
        /\ cmd.count = Len(store) - Len(cmd.before)
        /\ import(store, Commitments(store), cmd.file.notes) = store
        /\ import_count(Commitments(store), cmd.file.notes) = 0

(***************************************************************************)
(* C30: the encoder and the reader of the chain                            *)
(***************************************************************************)
\* C30: fetch_commitments_from_chain recognises every payload produced by
\* to_instruction_data (at least 424 bytes, the same 8-byte discriminator)
\* and the two field elements it decodes with bytes_to_fr from the byte
\* ranges 360..392 and 392..424 are commitment1 and commitment2, appended to
\* the leaves in that order; bytes_to_fr(fr_to_be_bytes(x)) = x for every
\* field element x.
C30_ReaderAgrees ==
    /\ wire.called /\ wire.ok =>
          /\ DataLen(wire.data) >= 424
          /\ Slice(wire.data, 0, 8) = Bytes(TRANSACT_DISCRIMINATOR)
          /\ fetch_commitments_from_chain(<<[data |-> wire.data]>>, {}, 1)
                = <<At(proof.public_signals, 5), At(proof.public_signals, 6)>>
    /\ \A i \in 1..Len(proof.public_signals) :
          bytes_to_fr(fr_to_be_bytes(proof.public_signals[i]))
             = [ok |-> TRUE, value |-> proof.public_signals[i]]

\* a payload whose two nullifiers and two commitments are four different
\* values, the first commitment being the largest field element
C30_Witness ==
    /\ wire.called /\ wire.ok
    /\ At(proof.public_signals, 5) = Fr(FIELD_SIZE - 1)
    /\ At(proof.public_signals, 6) = Fr(1)
    /\ At(proof.public_signals, 3) = Fr(0)
    /\ At(proof.public_signals, 4) = hash1(Fr(1))
    /\ fetch_commitments_from_chain(<<[data |-> wire.data]>>, {}, 1)
          = <<Fr(FIELD_SIZE - 1), Fr(1)>>

=============================================================================
